---- MODULE Spec2Model ----
(***************************************************************************)
(* Finite State Entropy codec (fse.c): header codec, symbol counting,      *)
(* normalization, symbol spreading, table construction, the encoder and    *)
(* decoder hot loops and the block framing, as a state machine whose       *)
(* actions are the public operations.                                      *)
(*                                                                         *)
(* C arrays are sequences: the C cell a[i] is the element a[i+1].          *)
(* A U32 register is a pair <<lo, hi>> of 16-bit halves, lo + 65536*hi,    *)
(* so that all 32 bits are kept and the arithmetic stays modulo 2^32.      *)
(***************************************************************************)
EXTENDS Integers, Sequences, FiniteSets, TLC

VARIABLES
    junk,      \* the byte found wherever the program reads what it never wrote
    pc,        \* what the caller has done so far
    buffer,    \* codec: the source buffer B
    hint,      \* codec: the tableLog argument of FSE_compress2
    nbSym,     \* codec: the nbSymbols argument of FSE_compress2
    frame,     \* codec: what FSE_compress2 returned and wrote
    frame2,    \* codec: the same for a second call on the same arguments
    plain,     \* codec: what FSE_decompress returned and wrote
    guarded,   \* codec: what FSE_decompress_safe returned, and its maxCompressedSize
    stats,     \* the globals stats_block_overhead_bytes, _data_bytes, _uncompressed_size, _entropy
    arg,       \* single calls: the arguments
    res,       \* single calls: the result
    back       \* header codec: what FSE_readHeader made of res

vars == <<junk, pc, buffer, hint, nbSym, frame, frame2, plain, guarded, stats, arg, res, back>>
codecVars == <<buffer, hint, nbSym, frame, frame2, plain, guarded, stats>>
callVars == <<arg, res, back>>

\* ------------------------------------------------------------- constants
FSE_MEMORY_USAGE == 14
FSE_MAX_NB_SYMBOLS == 286
FSE_MAX_NB_SYMBOLS_CHAR == IF FSE_MAX_NB_SYMBOLS > 256 THEN 256 ELSE FSE_MAX_NB_SYMBOLS
FSE_MAX_TABLELOG == FSE_MEMORY_USAGE - 2
FSE_MIN_TABLELOG == 5
FSE_VIRTUAL_LOG == 30
FSE_VIRTUAL_RANGE == 2^FSE_VIRTUAL_LOG

\* Outcomes of a call besides a size: the error return, a loop that never
\* exits, and an access outside every object.
ERROR == -1
HANG == -2
CRASH == -3

\* ------------------------------------------------------- machine integers
Pow2(n) == 2^n

Min(a, b) == IF a < b THEN a ELSE b
Max(a, b) == IF a > b THEN a ELSE b

\* x >> n on a non-negative int
Shr(x, n) == x \div Pow2(n)

\* C's % : the remainder has the sign of the dividend
CRem(a, b) == IF a >= 0 THEN a % b ELSE -((-a) % b)

\* U32 values
U32(x) == <<x % 65536, (x \div 65536) % 65536>>
U32Zero == <<0, 0>>
\* the low 31 bits as an int
U32Low31(w) == w[1] + 65536 * (w[2] % 32768)
\* w & mask, for a mask 2^k - 1 with k <= 31
U32And(w, mask) == U32Low31(w) % (mask + 1)
U32Shr(w, c) ==
    IF c >= 32 THEN U32Zero
    ELSE IF c >= 16 THEN <<w[2] \div Pow2(c - 16), 0>>
    ELSE <<(w[1] \div Pow2(c)) + (w[2] % Pow2(c)) * Pow2(16 - c), w[2] \div Pow2(c)>>
U32Shl(w, c) ==
    IF c >= 32 THEN U32Zero
    ELSE IF c >= 16 THEN <<0, (w[1] % Pow2(32 - c)) * Pow2(c - 16)>>
    ELSE <<(w[1] % Pow2(16 - c)) * Pow2(c),
           (w[2] % Pow2(16 - c)) * Pow2(c) + (w[1] \div Pow2(16 - c))>>
U32Add(a, b) ==
    LET lo == a[1] + b[1]
    IN  <<lo % 65536, (a[2] + b[2] + (lo \div 65536)) % 65536>>

\* memory: a byte the program wrote, or whatever lies there
ByteAt(mem, i) == IF i >= 0 /\ i < Len(mem) THEN mem[i + 1] ELSE junk
\* *(U32*)(mem + i), little-endian
ReadU32(mem, i) ==
    <<ByteAt(mem, i) + 256 * ByteAt(mem, i + 1),
      ByteAt(mem, i + 2) + 256 * ByteAt(mem, i + 3)>>
\* the bytes of *(U16*)p = (U16)w
U16Bytes(w) == <<w[1] % 256, w[1] \div 256>>
\* the bytes of *(U32*)p = w
U32Bytes(w) == <<w[1] % 256, w[1] \div 256, w[2] % 256, w[2] \div 256>>

\* a[i] of a C array of unsigned int
Cell(a, i) == IF i >= 0 /\ i < Len(a) THEN a[i + 1] ELSE junk

\* s[lo] + ... + s[hi - 1]
RECURSIVE SumRange(_, _, _)
SumRange(s, lo, hi) ==
    IF hi <= lo THEN 0
    ELSE IF hi = lo + 1 THEN s[lo]
    ELSE LET mid == (lo + hi) \div 2 IN SumRange(s, lo, mid) + SumRange(s, mid, hi)
SumSeq(s) == SumRange(s, 1, Len(s) + 1)

\* a C array as a sequence: cell i of the array is element i + 1
Array(f) == f \o <<>>

Zeros(n) == Array([i \in 1..n |-> 0])

\* FSE_highbit: position of the highest set bit; the intrinsic leaves the
\* result for 0 undefined, the software version returns 0
HighbitOfZero == IF junk = 0 THEN 0 ELSE 31
FSE_highbit(val) ==
    IF val = 0 THEN HighbitOfZero
    ELSE IF val < 0 THEN 31
    ELSE CHOOSE r \in 0..30 : Pow2(r) <= val /\ (r = 30 \/ val < Pow2(r + 1))

\* ------------------------------------------------------- header bitstream
\* while (remaining<threshold) { nbBits--; threshold>>=1; }
\* With remaining < 0 the threshold reaches 0 and the test stays true.
RECURSIVE HalveThreshold(_, _, _)
HalveThreshold(nbBits, threshold, remaining) ==
    IF remaining < threshold
    THEN IF threshold = 0
         THEN [nbBits |-> nbBits, threshold |-> 0, hang |-> TRUE]
         ELSE HalveThreshold(nbBits - 1, threshold \div 2, remaining)
    ELSE [nbBits |-> nbBits, threshold |-> threshold, hang |-> FALSE]

\* if (bitCount>16) { *(U16*)out = (U16)bitStream; out += 2; bitStream >>= 16; bitCount -= 16; }
WH_Flush(st) ==
    IF st.bitCount > 16
    THEN [st EXCEPT !.out = st.out \o U16Bytes(st.bitStream),
                    !.bitStream = U32Shr(st.bitStream, 16),
                    !.bitCount = st.bitCount - 16]
    ELSE st

\* while (!normalizedCounter[charnum]) charnum++;
\* the first nonzero cell from charnum on; past the array the cells hold junk
WH_SkipZeros(N, charnum) ==
    IF \E c \in charnum..(Len(N) - 1) : N[c + 1] # 0
    THEN CHOOSE c \in charnum..(Len(N) - 1) :
             N[c + 1] # 0 /\ \A k \in charnum..(c - 1) : N[k + 1] = 0
    ELSE IF junk # 0 THEN Max(charnum, Len(N)) ELSE Max(charnum, Len(N) + 4)

\* while (charnum >= start+24) { start+=24; bitStream += 0xFFFF<<bitCount; *(U16*)out=(U16)bitStream; out+=2; bitStream>>=16; }
RECURSIVE WH_Zeros24(_, _, _)
WH_Zeros24(st, start, charnum) ==
    IF charnum >= start + 24
    THEN LET bs == U32Add(st.bitStream, U32Shl(U32(65535), st.bitCount))
         IN  WH_Zeros24([st EXCEPT !.out = st.out \o U16Bytes(bs),
                                   !.bitStream = U32Shr(bs, 16)],
                        start + 24, charnum)
    ELSE [st |-> st, start |-> start]

\* while (charnum >= start+3) { start+=3; bitStream += 3 << bitCount; bitCount += 2; }
RECURSIVE WH_Zeros3(_, _, _)
WH_Zeros3(st, start, charnum) ==
    IF charnum >= start + 3
    THEN WH_Zeros3([st EXCEPT !.bitStream = U32Add(st.bitStream, U32Shl(U32(3), st.bitCount)),
                              !.bitCount = st.bitCount + 2],
                   start + 3, charnum)
    ELSE [st |-> st, start |-> start]

\* the "if (previous0)" block of FSE_writeHeader
WH_ZeroRun(st, N) ==
    LET Rest(b, charnum) ==
            WH_Flush([b.st EXCEPT !.bitStream = U32Add(b.st.bitStream,
                                                       U32Shl(U32(charnum - b.start), b.st.bitCount)),
                                  !.bitCount = b.st.bitCount + 2,
                                  !.charnum = charnum])
        Threes(a, charnum) == Rest(WH_Zeros3(a.st, a.start, charnum), charnum)
        Words(charnum) == Threes(WH_Zeros24(st, st.charnum, charnum), charnum)
    IN  Words(WH_SkipZeros(N, st.charnum))

\* the block of FSE_writeHeader that writes one count
WH_Count(st, N) ==
    LET count0 == Cell(N, st.charnum)
        max == (2 * st.threshold - 1) - st.remaining
        remaining == st.remaining - count0
        count == IF count0 >= st.threshold THEN count0 + max ELSE count0
        Halved(h) ==
            [st EXCEPT !.charnum = st.charnum + 1,
                       !.remaining = remaining,
                       !.bitStream = U32Add(st.bitStream, U32Shl(U32(count), st.bitCount)),
                       !.bitCount = st.bitCount + st.nbBits - (IF count < max THEN 1 ELSE 0),
                       !.previous0 = (count = 0),
                       !.nbBits = h.nbBits,
                       !.threshold = h.threshold,
                       !.hang = h.hang]
    IN  Halved(HalveThreshold(st.nbBits, st.threshold, remaining))

\* one pass of while (remaining>0) { ... }
WH_Pass(st, N) ==
    LET Counted(c) == IF c.hang THEN c ELSE WH_Flush(c)
    IN  Counted(WH_Count(IF st.previous0 THEN WH_ZeroRun(st, N) ELSE st, N))

\* the passes of that loop that start with charnum < hi: up to the middle, then up to hi
RECURSIVE WH_Loop(_, _, _)
WH_Loop(st, N, hi) ==
    LET mid == (st.charnum + hi) \div 2
    IN  IF st.hang \/ ~(st.remaining > 0) \/ st.charnum >= hi THEN st
        ELSE IF mid <= st.charnum THEN WH_Loop(WH_Pass(st, N), N, hi)
        ELSE WH_Loop(WH_Loop(st, N, mid), N, hi)

\* the loop reads normalizedCounter until remaining is used up; MaxOverrun
\* cells past the object it was given, the read is counted as a failed access
MaxOverrun == 8

\* a writer that starts with one bit more per count
WH_Init_wide(tableLog) ==
    [out |-> <<>>,
     bitStream |-> U32(2 + (tableLog - FSE_MIN_TABLELOG) * 4),
     bitCount |-> 6,
     charnum |-> 0,
     previous0 |-> FALSE,
     remaining |-> Pow2(tableLog),
     threshold |-> Pow2(tableLog),
     nbBits |-> tableLog + 2,
     hang |-> FALSE]

\* the writer before its loop: "HeaderId", "Table Size", "Init"
WH_Init(tableLog) ==
    [out |-> <<>>,
     bitStream |-> U32(2 + (tableLog - FSE_MIN_TABLELOG) * 4),
     bitCount |-> 6,
     charnum |-> 0,
     previous0 |-> FALSE,
     remaining |-> Pow2(tableLog),
     threshold |-> Pow2(tableLog),
     nbBits |-> tableLog + 1,
     hang |-> FALSE]

\* int FSE_writeHeader (void* header, const unsigned int* normalizedCounter, int nbSymbols, int tableLog)
\* ret: the number of bytes written, ERROR or HANG; out: the bytes written
FSE_writeHeader(N, nbSymbols, tableLog) ==
    IF tableLog > FSE_MAX_TABLELOG \/ tableLog < FSE_MIN_TABLELOG
    THEN [ret |-> ERROR, out |-> <<>>]
    ELSE
    LET st0 == WH_Init(tableLog)
        Looped(st) ==
            LET last == SubSeq(U16Bytes(st.bitStream), 1, (st.bitCount + 7) \div 8)
            IN  IF st.hang THEN [ret |-> HANG, out |-> st.out]
                ELSE IF st.remaining > 0 THEN [ret |-> CRASH, out |-> st.out]
                ELSE IF st.remaining < 0 THEN [ret |-> ERROR, out |-> st.out]
                ELSE IF st.charnum > nbSymbols THEN [ret |-> ERROR, out |-> st.out \o last]
                ELSE [ret |-> Len(st.out) + (st.bitCount + 7) \div 8, out |-> st.out \o last]
    IN  Looped(WH_Loop(st0, N, Len(N) + MaxOverrun))

\* ip += bitCount>>3; bitCount &= 7; bitStream = (*(U32*)ip) >> bitCount;
RH_Reload(st, mem) ==
    LET ip == st.ip + (st.bitCount \div 8)
        bitCount == st.bitCount % 8
    IN  [st EXCEPT !.ip = ip, !.bitCount = bitCount,
                   !.bitStream = U32Shr(ReadU32(mem, ip), bitCount)]

\* while ((bitStream & 0xFFFF) == 0xFFFF) { n0+=24; ip+=2; bitStream = (*(U32*)ip) >> bitCount; }
\* The loop runs on while it reads 0xFFFF, past the end of the buffer too.
RECURSIVE RH_Zeros24(_, _, _)
RH_Zeros24(st, n0, mem) ==
    IF U32And(st.bitStream, 65535) = 65535
    THEN IF st.ip > Len(mem) + 8
         THEN [st |-> [st EXCEPT !.crash = TRUE], n0 |-> n0]
         ELSE RH_Zeros24([st EXCEPT !.ip = st.ip + 2,
                                    !.bitStream = U32Shr(ReadU32(mem, st.ip + 2), st.bitCount)],
                         n0 + 24, mem)
    ELSE [st |-> st, n0 |-> n0]

\* a reader whose 2-bit loop never runs: it takes every group for the last one
RH_Zeros3Never(st, n0) == [st |-> st, n0 |-> n0]

\* while ((bitStream & 3) == 3) { n0+=3; bitStream>>=2; bitCount+=2; }
RECURSIVE RH_Zeros3(_, _)
RH_Zeros3(st, n0) ==
    IF U32And(st.bitStream, 3) = 3
    THEN RH_Zeros3([st EXCEPT !.bitStream = U32Shr(st.bitStream, 2),
                              !.bitCount = st.bitCount + 2],
                   n0 + 3)
    ELSE [st |-> st, n0 |-> n0]

\* the "if (previous0)" block of FSE_readHeader; a store past
\* normalizedCounter[FSE_MAX_NB_SYMBOLS_CHAR) is outside the caller's array
RH_ZeroRun(st, mem) ==
    LET Rest(s, n0) ==
            IF s.crash \/ n0 > FSE_MAX_NB_SYMBOLS_CHAR THEN [s EXCEPT !.crash = TRUE]
            ELSE RH_Reload([s EXCEPT !.bitCount = s.bitCount + 2,
                                     !.counts = s.counts \o Zeros(Max(0, n0 - s.charnum)),
                                     !.charnum = Max(s.charnum, n0)],
                           mem)
        Twos(b) == Rest(b.st, b.n0 + U32And(b.st.bitStream, 3))
        Threes(a) == Twos(RH_Zeros3(a.st, a.n0))
    IN  Threes(RH_Zeros24(st, st.charnum, mem))

\* the block of FSE_readHeader that reads one count
RH_Count(st, mem) ==
    LET max == (2 * st.threshold - 1) - st.remaining
        low == U32And(st.bitStream, st.threshold - 1)
        small == low < max
        full == U32And(st.bitStream, 2 * st.threshold - 1)
        count == IF small THEN low
                 ELSE IF full >= st.threshold THEN full - max ELSE full
        remaining == st.remaining - count
        Halved(h) ==
            RH_Reload([st EXCEPT !.bitCount = st.bitCount + (IF small THEN st.nbBits - 1 ELSE st.nbBits),
                                 !.remaining = remaining,
                                 !.counts = st.counts \o <<count>>,
                                 !.charnum = st.charnum + 1,
                                 !.previous0 = (count = 0),
                                 !.nbBits = h.nbBits,
                                 !.threshold = h.threshold,
                                 !.hang = h.hang],
                      mem)
    IN  Halved(HalveThreshold(st.nbBits, st.threshold, remaining))

\* one pass of while (remaining>0) { ... }
RH_Pass(st, mem) ==
    LET Skipped(z) ==
            IF z.crash THEN z
            ELSE IF z.charnum >= FSE_MAX_NB_SYMBOLS_CHAR THEN [z EXCEPT !.crash = TRUE]
            ELSE RH_Count(z, mem)
    IN  Skipped(IF st.previous0 THEN RH_ZeroRun(st, mem) ELSE st)

\* the passes of that loop that start with charnum < hi: up to the middle, then up to hi
RECURSIVE RH_Loop(_, _, _)
RH_Loop(st, mem, hi) ==
    LET mid == (st.charnum + hi) \div 2
    IN  IF st.hang \/ st.crash \/ ~(st.remaining > 0) \/ st.charnum >= hi THEN st
        ELSE IF mid <= st.charnum THEN RH_Loop(RH_Pass(st, mem), mem, hi)
        ELSE RH_Loop(RH_Loop(st, mem, mid), mem, hi)

\* the reader before its loop: the mode bits are skipped, the 4-bit field read
RH_Init(mem) ==
    LET first == U32Shr(ReadU32(mem, 0), 2)
        tableLog == U32And(first, 15) + FSE_MIN_TABLELOG
    IN  [ip |-> 0,
         bitStream |-> U32Shr(first, 4),
         bitCount |-> 6,
         charnum |-> 0,
         previous0 |-> FALSE,
         remaining |-> Pow2(tableLog),
         threshold |-> Pow2(tableLog),
         nbBits |-> tableLog + 1,
         counts |-> <<>>,
         hang |-> FALSE,
         crash |-> FALSE]

\* int FSE_readHeader (unsigned int* const normalizedCounter, int* nbSymbols, int* tableLog, const void* header)
\* mem is the memory starting at header; ip: where the last *(U32*)ip was read
FSE_readHeader(mem) ==
    LET first == U32Shr(ReadU32(mem, 0), 2)
        tableLog == U32And(first, 15) + FSE_MIN_TABLELOG
        st0 == RH_Init(mem)
        Looped(st) ==
            [ret |-> IF st.hang THEN HANG
                     ELSE IF st.crash \/ st.remaining > 0 THEN CRASH
                     ELSE IF st.remaining < 0 THEN ERROR
                     ELSE IF st.nbBits > FSE_MAX_TABLELOG THEN ERROR
                     ELSE st.ip + (IF st.bitCount > 0 THEN 1 ELSE 0),
             normalizedCounter |-> st.counts,
             nbSymbols |-> st.charnum, tableLog |-> tableLog, ip |-> st.ip]
    IN  Looped(RH_Loop(st0, mem, FSE_MAX_NB_SYMBOLS_CHAR))

\* --------------------------------------------------------- symbol counting
\* Counting1..Counting4 of FSE_count: lane k counts the bytes at 4j+k of the
\* unrolled loop (while (ip < iend-3)); the bytes left over go to Counting1
CountingLane(source, sourceSize, lane, s) ==
    LET quads == sourceSize \div 4
    IN  Cardinality({j \in 0..(quads - 1) : source[4 * j + lane + 1] = s})
        + (IF lane = 0
           THEN Cardinality({i \in (4 * quads)..(sourceSize - 1) : source[i + 1] = s})
           ELSE 0)

\* while (!count[maxNbSymbols-1]) maxNbSymbols--;
\* With no nonzero cell the loop reads count[-1], count[-2], ...
FSE_countTrim(count, maxNbSymbols) ==
    IF \E m \in 1..maxNbSymbols : count[m] # 0
    THEN CHOOSE m \in 1..maxNbSymbols :
             count[m] # 0 /\ \A k \in (m + 1)..maxNbSymbols : count[k] = 0
    ELSE IF junk # 0 THEN 0 ELSE CRASH

\* int FSE_count (unsigned int* count, const unsigned char* source, int sourceSize, int maxNbSymbols)
FSE_count(source, sourceSize, maxNbSymbols) ==
    IF maxNbSymbols > FSE_MAX_NB_SYMBOLS_CHAR THEN [ret |-> ERROR, count |-> <<>>]
    ELSE IF sourceSize = 0 THEN [ret |-> ERROR, count |-> <<>>]
    ELSE
    LET cap == IF maxNbSymbols = 0 THEN FSE_MAX_NB_SYMBOLS_CHAR ELSE maxNbSymbols
        Counted(count) == [ret |-> FSE_countTrim(count, cap), count |-> count]
    IN  Counted(Array([i \in 1..cap |->
                     CountingLane(source, sourceSize, 0, i - 1)
                   + CountingLane(source, sourceSize, 1, i - 1)
                   + CountingLane(source, sourceSize, 2, i - 1)
                   + CountingLane(source, sourceSize, 3, i - 1)]))

\* ------------------------------------------------------------ normalization
\* one pass of do { minBase += add; add = (add * nbSymbols) >> tableLog; } while (add);
\* add is U32 and never grows; once it repeats without being 0 it stays
NC_MinBasePass(st, nbSymbols, tableLog) ==
    LET next == Shr(st.add * nbSymbols, tableLog)
    IN  [minBase |-> st.minBase + st.add, add |-> next, hang |-> next # 0 /\ next = st.add]

\* the passes of that loop that start with add > lo: down to the middle, then down to lo
RECURSIVE NC_MinBaseWhile(_, _, _, _)
NC_MinBaseWhile(st, lo, nbSymbols, tableLog) ==
    LET mid == (st.add + lo) \div 2
    IN  IF st.hang \/ ~(st.add > lo) THEN st
        ELSE IF mid <= lo
        THEN NC_MinBaseWhile(NC_MinBasePass(st, nbSymbols, tableLog), lo, nbSymbols, tableLog)
        ELSE NC_MinBaseWhile(NC_MinBaseWhile(st, mid, nbSymbols, tableLog), lo, nbSymbols, tableLog)

\* the whole do-while loop: minBase when it ends, HANG when it does not
NC_MinBaseLoop(minBase, add, nbSymbols, tableLog) ==
    LET Looped(st) == IF st.hang THEN HANG ELSE st.minBase
    IN  Looped(NC_MinBaseWhile(NC_MinBasePass([minBase |-> minBase, add |-> add, hang |-> FALSE],
                                              nbSymbols, tableLog),
                               0, nbSymbols, tableLog))

\* the same choice without the line that makes room for nbSymbols
NC_TableLog_noRaise(tableLog, total, nbSymbols) ==
    LET t0 == IF tableLog = 0 THEN FSE_MAX_TABLELOG ELSE tableLog
        t1 == IF FSE_highbit(total - 1) + 1 < t0 THEN FSE_highbit(total - 1) + 1 ELSE t0
    IN  IF t1 < FSE_MIN_TABLELOG THEN FSE_MIN_TABLELOG ELSE t1

\* the tableLog FSE_normalizeCount settles on (lines "Check")
NC_TableLog(tableLog, total, nbSymbols) ==
    LET t0 == IF tableLog = 0 THEN FSE_MAX_TABLELOG ELSE tableLog
        t1 == IF FSE_highbit(total - 1) + 1 < t0 THEN FSE_highbit(total - 1) + 1 ELSE t0
        t2 == IF FSE_highbit(nbSymbols) + 1 > t1 THEN FSE_highbit(nbSymbols - 1) + 1 ELSE t1
    IN  IF t2 < FSE_MIN_TABLELOG THEN FSE_MIN_TABLELOG ELSE t2

\* for (s=0; s<nbSymbols; s++) vTotal += count[s] = (count[s]+base) >> shift;
NC_PreShift(count, nbSymbols, shift) ==
    Array([i \in 1..Len(count) |->
        IF i <= nbSymbols THEN Shr(count[i] + (Pow2(shift) - 1), shift) ELSE count[i]])

\* for (s=0; s<nbSymbols; s++) if (count[s]) { normalizedCounter[s] = count[s] + minBase; vTotal += minBase; }
NC_AddMinBase(count, nbSymbols, minBase) ==
    Array([i \in 1..Len(count) |->
        IF i <= nbSymbols /\ count[i] # 0 THEN count[i] + minBase ELSE count[i]])

NC_NbNonZero(count, nbSymbols) ==
    Cardinality({i \in 1..Min(nbSymbols, Len(count)) : count[i] # 0})

\* the same pass without the test for a single symbol
NC_ScaleStep_noSingle(st, vTotal, step, scale) ==
    LET s == st.s
    IN  IF Cell(st.count, s) > 0
        THEN LET vStep == Pow2(scale)
                 size0 == Shr(st.count[s + 1] * step, scale)
                 rest == (st.count[s + 1] * step) - (size0 * vStep)
                 cr == st.cumulativeRest + rest
                 size == size0 + Shr(cr, scale)
             IN  [st EXCEPT !.count[s + 1] = size, !.cumulativeRest = cr % vStep, !.s = s + 1]
        ELSE [st EXCEPT !.s = s + 1]

\* one pass of the last loop of FSE_normalizeCount; st.s is the loop
\* variable, st.single says that the loop was left by "return 0"
NC_ScaleStep(st, vTotal, step, scale) ==
    LET s == st.s
    IN  IF Cell(st.count, s) = vTotal THEN [st EXCEPT !.single = TRUE]
        ELSE IF Cell(st.count, s) > 0
        THEN LET vStep == Pow2(scale)
                 size0 == Shr(st.count[s + 1] * step, scale)
                 rest == (st.count[s + 1] * step) - (size0 * vStep)
                 cr == st.cumulativeRest + rest
                 size == size0 + Shr(cr, scale)
             IN  [st EXCEPT !.count[s + 1] = size, !.cumulativeRest = cr % vStep, !.s = s + 1]
        ELSE [st EXCEPT !.s = s + 1]

\* for (; s<hi; s++) of that loop: up to the middle, then up to hi
RECURSIVE NC_Scale(_, _, _, _, _)
NC_Scale(st, hi, vTotal, step, scale) ==
    IF st.single \/ st.s >= hi THEN st
    ELSE IF st.s + 1 = hi THEN NC_ScaleStep(st, vTotal, step, scale)
    ELSE NC_Scale(NC_Scale(st, (st.s + hi) \div 2, vTotal, step, scale), hi, vTotal, step, scale)

\* int FSE_normalizeCount (unsigned int* normalizedCounter, int tableLog, unsigned int* count, int total, int nbSymbols)
\* called in place (normalizedCounter == count), as FSE_compress2 does
FSE_normalizeCount(tableLogHint, count, total, nbSymbols) ==
    LET Checked(tableLog) ==
            IF tableLog > FSE_MAX_TABLELOG THEN [ret |-> ERROR, count |-> count]
            ELSE
            LET maxLog == FSE_VIRTUAL_LOG - tableLog
                srcLog == FSE_highbit(total - 1) + 1
                shifted == srcLog > maxLog
                biased == total > Pow2(tableLog)
                Shifted(c1, vTotal1, loop) ==
                    IF loop = HANG THEN [ret |-> HANG, count |-> c1]
                    ELSE
                    LET minBase == Shr(loop, tableLog)
                        Biased(c2, vTotal) ==
                            LET scale == FSE_VIRTUAL_LOG - tableLog
                                vStep == Pow2(scale)
                                step == FSE_VIRTUAL_RANGE \div vTotal
                                error == FSE_VIRTUAL_RANGE - (step * vTotal)
                                cumulativeRest == IF error > vStep THEN error
                                                  ELSE Shr(vStep + error, 1)
                                Scaled(r) == [ret |-> IF r.single THEN 0 ELSE tableLog,
                                              count |-> r.count]
                            IN  Scaled(NC_Scale([s |-> 0, single |-> FALSE, count |-> c2,
                                                 cumulativeRest |-> cumulativeRest],
                                                nbSymbols, vTotal, step, scale))
                    IN  Biased(IF biased THEN NC_AddMinBase(c1, nbSymbols, minBase) ELSE c1,
                               IF biased THEN vTotal1 + minBase * NC_NbNonZero(c1, nbSymbols)
                               ELSE vTotal1)
                PreShifted(c1) ==
                    Shifted(c1,
                            IF shifted THEN SumSeq(SubSeq(c1, 1, nbSymbols)) ELSE total,
                            IF biased
                            THEN NC_MinBaseLoop(total, Shr(total * nbSymbols, tableLog),
                                                nbSymbols, tableLog)
                            ELSE 0)
            IN  PreShifted(IF shifted THEN NC_PreShift(count, nbSymbols, srcLog - maxLog)
                           ELSE count)
    IN  Checked(NC_TableLog(tableLogHint, total, nbSymbols))

\* ---------------------------------------------------------- symbol spread
\* an even step, which shares a factor with the table size
FSE_TABLESTEP_even(tableSize) == (tableSize \div 2) + (tableSize \div 8) + 2

\* #define FSE_TABLESTEP(tableSize) ((tableSize>>1) + (tableSize>>3) + 3)
FSE_TABLESTEP(tableSize) == (tableSize \div 2) + (tableSize \div 8) + 3

\* tableSymbolByte[position] = (BYTE)s; position = (position + step) & tableMask;
\* sp.s and sp.i are the loop variables; writes counts the stores made to each cell
SpreadStore(sp, tableSize) ==
    [sp EXCEPT !.table[sp.position + 1] = sp.s % 256,
               !.writes[sp.position + 1] = @ + 1,
               !.position = (sp.position + FSE_TABLESTEP(tableSize)) % tableSize,
               !.i = sp.i + 1]

\* for (; i<hi; i++) of the inner loop: up to the middle, then up to hi
RECURSIVE SpreadSymbol(_, _, _)
SpreadSymbol(sp, hi, tableSize) ==
    IF sp.i >= hi THEN sp
    ELSE IF sp.i + 1 = hi THEN SpreadStore(sp, tableSize)
    ELSE SpreadSymbol(SpreadSymbol(sp, (sp.i + hi) \div 2, tableSize), hi, tableSize)

\* one pass of the outer loop: for (i=0; i<normalizedCounter[s]; i++) ...
SpreadOne(sp, N, tableSize) ==
    [SpreadSymbol([sp EXCEPT !.i = 0], Cell(N, sp.s), tableSize) EXCEPT !.s = sp.s + 1]

\* for (; s<hi; s++) of the outer loop
RECURSIVE SpreadLoop(_, _, _, _)
SpreadLoop(sp, N, hi, tableSize) ==
    IF sp.s >= hi THEN sp
    ELSE IF sp.s + 1 = hi THEN SpreadOne(sp, N, tableSize)
    ELSE SpreadLoop(SpreadLoop(sp, N, (sp.s + hi) \div 2, tableSize), N, hi, tableSize)

\* int FSE_spreadSymbols8(BYTE* tableSymbolByte, const unsigned int* normalizedCounter, int nbSymbols, int tableLog)
\* tableSymbolByte is a local array of the caller that nothing initialized
FSE_spreadSymbols8(N, nbSymbols, tableLog) ==
    LET tableSize == Pow2(tableLog)
        Spread(sp) ==
            [ret |-> IF sp.position # 0 THEN ERROR ELSE 0,
             tableSymbolByte |-> sp.table, writes |-> sp.writes, position |-> sp.position]
    IN  Spread(SpreadLoop([table |-> Array([p \in 1..tableSize |-> junk]),
                           writes |-> Zeros(tableSize),
                           position |-> 0, s |-> 0, i |-> 0],
                          N, nbSymbols, tableSize))

\* ------------------------------------------------------------ encoder table
\* cumul[0] = 0; for (i=1; i<nbSymbols; i++) cumul[i] = cumul[i-1] + normalizedCounter[i-1];
\* acc holds cumul[0..i); the loop runs up to the middle, then up to hi
RECURSIVE CT_Cumul(_, _, _)
CT_Cumul(acc, N, hi) ==
    LET i == Len(acc)
    IN  IF i >= hi THEN acc
        ELSE IF i + 1 = hi THEN Append(acc, acc[i] + Cell(N, i - 1))
        ELSE CT_Cumul(CT_Cumul(acc, N, (i + hi) \div 2), N, hi)

\* the same store without the ++ of cumul[s]
CT_FillStep_noAdvance(st, spread, tableSize) ==
    LET i == st.i
        s == spread[i + 1]
        at == IF s < Len(st.cumul) THEN st.cumul[s + 1] ELSE tableSize
    IN  [tableU16 |-> IF at >= 0 /\ at < tableSize
                      THEN [st.tableU16 EXCEPT ![at + 1] = (tableSize + i) % 65536]
                      ELSE st.tableU16,
         cumul |-> st.cumul,
         i |-> i + 1]

\* BYTE s = tableSymbolByte[i]; tableU16[cumul[s]++] = (U16) (tableSize+i);
\* a store outside tableU16[0..tableSize) lands in the rest of the CTable
CT_FillStep(st, spread, tableSize) ==
    LET i == st.i
        s == spread[i + 1]
        at == IF s < Len(st.cumul) THEN st.cumul[s + 1] ELSE tableSize
    IN  [tableU16 |-> IF at >= 0 /\ at < tableSize
                      THEN [st.tableU16 EXCEPT ![at + 1] = (tableSize + i) % 65536]
                      ELSE st.tableU16,
         cumul |-> IF s < Len(st.cumul) THEN [st.cumul EXCEPT ![s + 1] = @ + 1] ELSE st.cumul,
         i |-> i + 1]

\* for (; i<hi; i++) of that loop: up to the middle, then up to hi
RECURSIVE CT_Fill(_, _, _, _)
CT_Fill(st, spread, hi, tableSize) ==
    IF st.i >= hi THEN st
    ELSE IF st.i + 1 = hi THEN CT_FillStep(st, spread, tableSize)
    ELSE CT_Fill(CT_Fill(st, spread, (st.i + hi) \div 2, tableSize), spread, hi, tableSize)

\* one pass of the "Build Symbol Transformation Table" loop, for symbol
\* s = Len(st.symbolTT); a symbol of count 0 keeps whatever the CTable held.
\* A count above the table size wraps minBitsOut, and the shift by 32 or more
\* bits that follows leaves maxState undefined.
CT_TransformStep(st, N, tableLog, garbage) ==
    LET s == Len(st.symbolTT)
        n == Cell(N, s)
        minBitsOut == ((tableLog - 1) - FSE_highbit(n - 1)) % 256
    IN  IF n = 0 THEN [st EXCEPT !.symbolTT = Append(@, garbage)]
        ELSE IF n = 1
        THEN [symbolTT |-> Append(st.symbolTT, [minBitsOut |-> tableLog % 256,
                                                deltaFindState |-> st.total - 1,
                                                maxState |-> (Pow2(tableLog) * 2 - 1) % 65536]),
              total |-> st.total + 1]
        ELSE [symbolTT |-> Append(st.symbolTT, [minBitsOut |-> minBitsOut,
                                                deltaFindState |-> st.total - n,
                                                maxState |-> IF minBitsOut + 1 > 31
                                                             THEN junk + 256 * junk
                                                             ELSE (n * Pow2(minBitsOut + 1) - 1) % 65536]),
              total |-> st.total + n]

\* for (; s<hi; s++) of that loop: up to the middle, then up to hi
RECURSIVE CT_Transforms(_, _, _, _, _)
CT_Transforms(st, hi, N, tableLog, garbage) ==
    LET s == Len(st.symbolTT)
    IN  IF s >= hi THEN st
        ELSE IF s + 1 = hi THEN CT_TransformStep(st, N, tableLog, garbage)
        ELSE CT_Transforms(CT_Transforms(st, (s + hi) \div 2, N, tableLog, garbage),
                           hi, N, tableLog, garbage)

\* int FSE_buildCTable (void* CTable, const unsigned int* normalizedCounter, int nbSymbols, int tableLog)
\* garbage: the content of the CTable before the call
FSE_buildCTable(N, nbSymbols, tableLog, garbage) ==
    LET tableSize == Pow2(tableLog)
        empty == [tableLog |-> tableLog, nbSymbols |-> nbSymbols, garbage |-> garbage,
                  stateTable |-> <<>>, symbolTT |-> <<>>]
        Spread(sp) ==
            IF sp.ret = ERROR THEN [ret |-> ERROR, CTable |-> empty]
            ELSE [ret |-> 0,
                  CTable |-> [empty EXCEPT
                      !.stateTable =
                          CT_Fill([tableU16 |-> Array([i \in 1..tableSize |-> garbage.state]),
                                   cumul |-> CT_Cumul(<<0>>, N, nbSymbols), i |-> 0],
                                  sp.tableSymbolByte, tableSize, tableSize).tableU16,
                      !.symbolTT =
                          CT_Transforms([symbolTT |-> <<>>, total |-> 0], nbSymbols,
                                        N, tableLog, garbage).symbolTT]]
    IN  Spread(FSE_spreadSymbols8(N, nbSymbols, tableLog))

\* ------------------------------------------------------- forward bit stream
\* FSE_addBits(bitC, value, nbBits): the low nbBits bits of value go into the
\* container above the bitPos bits it holds
FSE_addBits(bitC, value, nbBits) ==
    [bitC EXCEPT !.bitContainer = bitC.bitContainer + (value % Pow2(nbBits)) * Pow2(bitC.bitPos),
                 !.bitPos = bitC.bitPos + nbBits]

\* the whole bytes of a container of bitPos bits, lowest first
RECURSIVE ContainerBytes(_, _)
ContainerBytes(bitContainer, nbBytes) ==
    IF nbBytes = 0 THEN <<>>
    ELSE <<bitContainer % 256>> \o ContainerBytes(bitContainer \div 256, nbBytes - 1)

\* FSE_flushBits(&op, bitC): the whole bytes of the container go to *op++,
\* the bits left stay in the container
FSE_flushBits(bitC) ==
    LET nbBytes == bitC.bitPos \div 8
    IN  [bitC EXCEPT !.out = bitC.out \o ContainerBytes(bitC.bitContainer, nbBytes),
                     !.bitContainer = bitC.bitContainer \div Pow2(8 * nbBytes),
                     !.bitPos = bitC.bitPos % 8]

\* ------------------------------------------------------------ encoder loop
\* symbolTT[symbol] and stateTable[index] of a CTable
CT_SymbolTT(CTable, symbol) ==
    IF symbol < Len(CTable.symbolTT) THEN CTable.symbolTT[symbol + 1] ELSE CTable.garbage
CT_StateTable(CTable, index) ==
    IF index >= 0 /\ index < Len(CTable.stateTable) THEN CTable.stateTable[index + 1]
    ELSE CTable.garbage.state

\* a count of bits that never adds the extra bit of the states above maxState
EncodeNbBits_floor(tt, state) == tt.minBitsOut

\* a count of bits that always adds the extra bit
EncodeNbBits_ceil(tt, state) == tt.minBitsOut + 1

\* nbBitsOut -= (int)((symbolTT[symbol].maxState - *state) >> 31);
EncodeNbBits(tt, state) == tt.minBitsOut + (IF tt.maxState - state < 0 THEN 1 ELSE 0)

\* void FSE_encodeByte(ptrdiff_t* state, bitContainer_forward_t* bitC, BYTE symbol, const void* CTable1, const void* CTable2)
FSE_encodeByte(state, bitC, symbol, CTable) ==
    LET Transform(tt, nbBitsOut) ==
            [bitC |-> FSE_addBits(bitC, state, nbBitsOut),
             state |-> CT_StateTable(CTable, Shr(state, nbBitsOut) + tt.deltaFindState)]
        Symbol(tt) == Transform(tt, EncodeNbBits(tt, state))
    IN  Symbol(CT_SymbolTT(CTable, symbol))

\* a descriptor that leaves out the number of padding bits
StreamDescriptor_noPad(byteLen, bitPos, nbStates) ==
    U32Add(U32Shl(U32(byteLen), 3), U32Shl(U32(nbStates - 1), 30))

\* a descriptor with the number of states one bit lower
StreamDescriptor_low(byteLen, bitPos, nbStates) ==
    U32Add(U32Add(U32Shl(U32(byteLen), 3), U32(bitPos)), U32Shl(U32(nbStates - 1), 29))

\* the descriptor word of FSE_closeCompressionStream
StreamDescriptor(byteLen, bitPos, nbStates) ==
    U32Add(U32Add(U32Shl(U32(byteLen), 3), U32(bitPos)), U32Shl(U32(nbStates - 1), 30))

\* int FSE_closeCompressionStream(void* outPtr, bitContainer_forward_t* bitC, int nbStates,
\*        ptrdiff_t state1, ptrdiff_t state2, ptrdiff_t state3, ptrdiff_t state4,
\*        void* compressionStreamDescriptor, const void* CTable)
\* bitC.out holds the bytes written after the 4 reserved for the descriptor
FSE_closeCompressionStream(bitC, nbStates, state1, state2, state3, state4, CTable) ==
    IF nbStates < 1 \/ nbStates > 4 THEN [ret |-> ERROR, out |-> <<>>]
    ELSE
    LET tableLog == CTable.tableLog
        Flushed(b1) ==
            LET bitPos == IF 8 - b1.bitPos = 8 THEN 0 ELSE 8 - b1.bitPos
                byteLen == 4 + Len(b1.out) + (IF b1.bitPos > 0 THEN 1 ELSE 0)
            IN  [ret |-> byteLen,
                 out |-> U32Bytes(StreamDescriptor(byteLen, bitPos, nbStates)) \o b1.out
                         \o (IF b1.bitPos > 0 THEN <<b1.bitContainer % 256>> ELSE <<>>)]
        State2(b2) == Flushed(FSE_flushBits(FSE_addBits(b2, state1, tableLog)))
        State3(b3) == State2(IF nbStates >= 2
                             THEN FSE_flushBits(FSE_addBits(b3, state2, tableLog)) ELSE b3)
        State4(b4) == State3(IF nbStates >= 3
                             THEN FSE_flushBits(FSE_addBits(b4, state3, tableLog)) ELSE b4)
    IN  State4(IF nbStates >= 4 THEN FSE_flushBits(FSE_addBits(bitC, state4, tableLog)) ELSE bitC)

\* #define FSE_ILP 1
FSE_ILP == 1
\* sizeof(size_t): the width of the forward bit container
SizeofSizeT == 8

\* while (nbCatchup) { FSE_encodeByte(&state1, &bitC, *--ip, ...); FSE_flushBits(...); nbCatchup--; }
RECURSIVE EncodeCatchup(_, _, _, _)
EncodeCatchup(e, nbCatchup, source, CTable) ==
    IF nbCatchup = 0 THEN e
    ELSE LET Encoded(a) ==
                 EncodeCatchup([e EXCEPT !.state1 = a.state, !.bitC = FSE_flushBits(a.bitC),
                                         !.ip = e.ip - 1],
                               nbCatchup - 1, source, CTable)
         IN  Encoded(FSE_encodeByte(e.state1, e.bitC, source[e.ip], CTable))

\* one pass of while (ip>istart) { two FSE_encodeByte, then FSE_flushBits }
EncodePair(e, source, CTable, ilp) ==
    LET Second(a, b) ==
            [e EXCEPT !.state1 = IF ilp = 1 THEN a.state ELSE b.state,
                      !.state2 = IF ilp = 1 THEN b.state ELSE e.state2,
                      !.bitC = FSE_flushBits(b.bitC),
                      !.ip = e.ip - 2]
        First(a) ==
            Second(a, FSE_encodeByte(IF ilp = 1 THEN e.state2 ELSE a.state,
                                     IF SizeofSizeT * 8 < FSE_MAX_TABLELOG * 2 + 7
                                     THEN FSE_flushBits(a.bitC) ELSE a.bitC,
                                     IF e.ip - 1 >= 1 THEN source[e.ip - 1] ELSE junk, CTable))
    IN  First(FSE_encodeByte(e.state1, e.bitC, source[e.ip], CTable))

\* while (ip > istart+lo) of that loop: down to the middle, then down to lo
RECURSIVE EncodePairs(_, _, _, _, _)
EncodePairs(e, lo, source, CTable, ilp) ==
    IF ~(e.ip > lo) THEN e
    ELSE IF e.ip - 2 <= lo THEN EncodePair(e, source, CTable, ilp)
    ELSE EncodePairs(EncodePairs(e, (e.ip + lo) \div 2, source, CTable, ilp),
                     lo, source, CTable, ilp)

\* int FSE_compress_usingCTable_generic (void* dest, const unsigned char* source, int sourceSize, const void* CTable, int ilp)
\* ip counts the bytes of source not yet read: *--ip is source[ip] (1-based)
FSE_compress_usingCTable_generic(source, sourceSize, CTable, ilp) ==
    LET nbStreams == 1 + ilp
        tableSize == Pow2(CTable.tableLog)
        last1 == IF sourceSize >= 1 THEN source[sourceSize] ELSE junk
        last2 == IF sourceSize >= 2 THEN source[sourceSize - 1] ELSE junk
        e0 == [state1 |-> tableSize + last1,
               state2 |-> IF ilp = 1 THEN tableSize + last2 ELSE tableSize,
               bitC |-> [bitContainer |-> 0, bitPos |-> 0, out |-> <<>>],
               ip |-> sourceSize - nbStreams]
        Encoded(e2) ==
            FSE_closeCompressionStream(e2.bitC, nbStreams, e2.state1, e2.state2, tableSize, 0, CTable)
    IN  Encoded(EncodePairs(EncodeCatchup(e0, CRem(sourceSize - nbStreams, 2), source, CTable),
                            0, source, CTable, ilp))

FSE_compress_usingCTable(source, sourceSize, CTable) ==
    FSE_compress_usingCTable_generic(source, sourceSize, CTable, FSE_ILP)

\* int FSE_writeSingleChar (BYTE *out, BYTE symbol)
FSE_writeSingleChar(symbol) == [ret |-> 2, out |-> <<1, symbol>>]

\* a raw copy that leaves out the mode byte
FSE_noCompression_bare(in, isize) == [ret |-> isize, out |-> SubSeq(in, 1, isize)]

\* int FSE_noCompression (BYTE* out, const BYTE* in, int isize)
FSE_noCompression(in, isize) == [ret |-> isize + 1, out |-> <<0>> \o SubSeq(in, 1, isize)]

\* the same test with > for >=
NotCompressible_strict(opSize, sourceSize) == opSize > sourceSize - 1

\* if ( (op-ostart) >= (sourceSize-1) ) return FSE_noCompression (...)
NotCompressible(opSize, sourceSize) == opSize >= sourceSize - 1

\* int FSE_compress2 (void* dest, const unsigned char* source, int sourceSize, int nbSymbols, int tableLog)
\* garbage: the content of the local CTable before FSE_buildCTable fills it
\* stats: how far the stats_block_* globals were assigned (0: none, 1: the
\* overhead, 2: all three); normalSize: op-ostart at the compressibility check;
\* entropyTerms: how many terms the loop over counting[] added to stats_block_entropy
FSE_compress2(source, sourceSize, nbSymbolsArg, tableLogArg, garbage) ==
    LET none == [ret |-> ERROR, out |-> <<>>, stats |-> 0, overhead |-> 0, data |-> 0,
                 normalSize |-> 0, entropyTerms |-> 0, tableLog |-> 0]
        done(r) == [none EXCEPT !.ret = r.ret, !.out = r.out]
        nbSymbols0 == IF nbSymbolsArg = 0 THEN FSE_MAX_NB_SYMBOLS_CHAR ELSE nbSymbolsArg
        tableLog0 == IF tableLogArg = 0 THEN FSE_MAX_TABLELOG ELSE tableLogArg
        Counted(c) ==
            IF c.ret = ERROR \/ c.ret = CRASH THEN [none EXCEPT !.ret = c.ret]
            ELSE IF c.ret = 1 THEN done(FSE_writeSingleChar(source[1]))
            ELSE
            LET nbSymbols == c.ret
                terms == NC_NbNonZero(c.count, nbSymbols)
                Normalized(n) ==
                    IF n.ret = ERROR \/ n.ret = HANG
                    THEN [none EXCEPT !.ret = n.ret, !.entropyTerms = terms]
                    ELSE IF n.ret = 0
                    THEN [done(FSE_writeSingleChar(source[1])) EXCEPT !.entropyTerms = terms]
                    ELSE
                    LET tableLog == n.ret
                        Written(h) ==
                            IF h.ret = ERROR \/ h.ret = HANG
                            THEN [none EXCEPT !.ret = h.ret, !.entropyTerms = terms]
                            ELSE
                            LET Built(t) ==
                                    IF t.ret = ERROR
                                    THEN [none EXCEPT !.stats = 1, !.overhead = h.ret,
                                                      !.entropyTerms = terms]
                                    ELSE
                                    LET Encoded(z) ==
                                            LET opSize == h.ret + z.ret
                                                Stored(r) ==
                                                    [ret |-> r.ret, out |-> r.out, stats |-> 2,
                                                     overhead |-> h.ret, data |-> z.ret,
                                                     normalSize |-> opSize,
                                                     entropyTerms |-> terms,
                                                     tableLog |-> tableLog]
                                            IN  Stored(IF NotCompressible(opSize, sourceSize)
                                                       THEN FSE_noCompression(source, sourceSize)
                                                       ELSE [ret |-> opSize,
                                                             out |-> SubSeq(h.out, 1, h.ret) \o z.out])
                                    IN  Encoded(FSE_compress_usingCTable(source, sourceSize, t.CTable))
                            IN  Built(FSE_buildCTable(n.count, nbSymbols, tableLog, garbage))
                    IN  Written(FSE_writeHeader(n.count, nbSymbols, tableLog))
            IN  Normalized(FSE_normalizeCount(tableLog0, c.count, sourceSize, nbSymbols))
    IN  IF sourceSize <= 1 THEN done(FSE_noCompression(source, sourceSize))
        ELSE Counted(FSE_count(source, sourceSize, nbSymbols0))

\* int FSE_compress (void* dest, const unsigned char* source, int sourceSize)
FSE_compress(source, sourceSize, garbage) ==
    FSE_compress2(source, sourceSize, FSE_MAX_NB_SYMBOLS_CHAR, FSE_MAX_TABLELOG, garbage)

\* ------------------------------------------------------------ decoder table
\* the same pass with newState left at nextState << nbBits
DT_FillStep_noRebase(st, spread, tableLog, tableSize) ==
    LET i == Len(st.tableDecode)
        s == spread[i + 1]
        nextState == Cell(st.symbolNext, s)
        nbBits == (tableLog - FSE_highbit(nextState)) % 256
        shifted == IF nbBits < 16 THEN nextState * Pow2(nbBits)
                   ELSE IF nbBits < 32 THEN 0 ELSE junk + 256 * junk
    IN  [tableDecode |-> Append(st.tableDecode, [symbol |-> s, nbBits |-> nbBits,
                                                 newState |-> shifted % 65536]),
         symbolNext |-> IF s < Len(st.symbolNext) THEN [st.symbolNext EXCEPT ![s + 1] = @ + 1]
                        ELSE st.symbolNext]

\* for (i=0; i<tableSize; i++) { BYTE s = tableDecode[i].symbol; U32 nextState = symbolNext[s]++;
\*     tableDecode[i].nbBits = (BYTE) (tableLog - FSE_highbit (nextState) );
\*     tableDecode[i].newState = (U16) ( (nextState << tableDecode[i].nbBits) - tableSize); }
DT_FillStep(st, spread, tableLog, tableSize) ==
    LET i == Len(st.tableDecode)
        s == spread[i + 1]
        nextState == Cell(st.symbolNext, s)
        nbBits == (tableLog - FSE_highbit(nextState)) % 256
        \* the low 16 bits of nextState << nbBits; undefined for a shift by 32 or more
        shifted == IF nbBits < 16 THEN nextState * Pow2(nbBits)
                   ELSE IF nbBits < 32 THEN 0 ELSE junk + 256 * junk
    IN  [tableDecode |-> Append(st.tableDecode, [symbol |-> s, nbBits |-> nbBits,
                                                 newState |-> (shifted - tableSize) % 65536]),
         symbolNext |-> IF s < Len(st.symbolNext) THEN [st.symbolNext EXCEPT ![s + 1] = @ + 1]
                        ELSE st.symbolNext]

\* for (; i<hi; i++) of that loop, i = Len(st.tableDecode): up to the middle, then up to hi
RECURSIVE DT_Fill(_, _, _, _, _)
DT_Fill(st, spread, hi, tableLog, tableSize) ==
    LET i == Len(st.tableDecode)
    IN  IF i >= hi THEN st
        ELSE IF i + 1 = hi THEN DT_FillStep(st, spread, tableLog, tableSize)
        ELSE DT_Fill(DT_Fill(st, spread, (i + hi) \div 2, tableLog, tableSize),
                     spread, hi, tableLog, tableSize)

\* int FSE_buildDTable (void* DTable, const unsigned int* const normalizedCounter, int nbSymbols, int tableLog)
FSE_buildDTable(N, nbSymbols, tableLog) ==
    IF nbSymbols > FSE_MAX_NB_SYMBOLS_CHAR \/ tableLog > FSE_MAX_TABLELOG
    THEN [ret |-> ERROR, DTable |-> <<>>, symbolNext |-> <<>>]
    ELSE
    LET Filled(f) == [ret |-> 0, DTable |-> f.tableDecode, symbolNext |-> f.symbolNext]
        Spread(sp) ==
            IF sp.ret = ERROR THEN [ret |-> ERROR, DTable |-> <<>>, symbolNext |-> <<>>]
            ELSE Filled(DT_Fill([tableDecode |-> <<>>,
                                 symbolNext |-> Array([i \in 1..nbSymbols |-> Cell(N, i - 1)])],
                                sp.tableSymbolByte, Pow2(tableLog), tableLog, Pow2(tableLog)))
    IN  Spread(FSE_spreadSymbols8(N, nbSymbols, tableLog))

\* ------------------------------------------------------ backward bit stream
\* int FSE_decompressRaw (void* out, int osize, const BYTE* in)
FSE_decompressRaw(osize, in) ==
    [ret |-> osize + 1, dst |-> Array([i \in 1..osize |-> ByteAt(in, i)])]

\* int FSE_decompressSingleSymbol (void* out, int osize, const BYTE symbol)
FSE_decompressSingleSymbol(osize, symbol) ==
    [ret |-> 2, dst |-> Array([i \in 1..osize |-> symbol])]

\* a refill that keeps bitsConsumed as it is
FSE_updateBitStream_noMask(d, mem) ==
    LET ip == d.ip - (d.bitsConsumed \div 8)
    IN  [d EXCEPT !.ip = ip, !.bitContainer = ReadU32(mem, ip)]

\* a refill that reloads the window where it was
FSE_updateBitStream_noRewind(d, mem) ==
    [d EXCEPT !.bitContainer = ReadU32(mem, d.ip), !.bitsConsumed = d.bitsConsumed % 8]

\* void FSE_updateBitStream(bitContainer_backward_t* bitC, const void** ip)
\* d holds the decoder's bit container and its read pointer ip
FSE_updateBitStream(d, mem) ==
    LET ip == d.ip - (d.bitsConsumed \div 8)
    IN  [d EXCEPT !.ip = ip, !.bitContainer = ReadU32(mem, ip),
                  !.bitsConsumed = d.bitsConsumed % 8]

\* U32 value = ((bitC->bitContainer << bitC->bitsConsumed) >> 1) >> (31-nbBits);
\* A shift count outside 0..31 leaves the value undefined.
ReadBitsValue(bitContainer, bitsConsumed, nbBits) ==
    IF nbBits > 31 \/ bitsConsumed > 31 THEN junk
    ELSE U32Low31(U32Shr(U32Shr(U32Shl(bitContainer, bitsConsumed), 1), 31 - nbBits))

\* U32 FSE_readBits(bitContainer_backward_t* bitC, int nbBits)
FSE_readBits(d, nbBits) ==
    [value |-> ReadBitsValue(d.bitContainer, d.bitsConsumed, nbBits),
     d |-> [d EXCEPT !.bitsConsumed = d.bitsConsumed + nbBits]]

\* decodeTable[state]
DT_Entry(DTable, state) ==
    IF state >= 0 /\ state < Len(DTable) THEN DTable[state + 1]
    ELSE [symbol |-> junk, nbBits |-> junk, newState |-> junk + 256 * junk]

\* BYTE FSE_decodeSymbol(U32* state, bitContainer_backward_t* bitC, const void* DTable)
FSE_decodeSymbol(state, d, DTable) ==
    LET Read(e, r) == [symbol |-> e.symbol, state |-> e.newState + r.value, d |-> r.d]
        Entry(e) == Read(e, FSE_readBits(d, e.nbBits))
    IN  Entry(DT_Entry(DTable, state))

\* FSE_initDecompressionStream_generic(bitC, nbStates, state1..state4, p, tableLog, maxCompressedSize, safe)
\* p: the offset of the stream in mem
FSE_initDecompressionStream_generic(mem, p, tableLog, maxCompressedSize, safe) ==
    LET word == ReadU32(mem, p)
        nbStates == (word[2] \div 16384) + 1
        descriptor == <<word[1], word[2] % 16384>>
        byteLen == U32Low31(U32Shr(descriptor, 3))
        iend == p + byteLen
        d0 == [ip |-> iend - 4, bitContainer |-> ReadU32(mem, iend - 4),
               bitsConsumed |-> U32And(descriptor, 7)]
        \* x: what is set so far; r: the bits read for state k
        State(x, k, r) ==
            IF nbStates >= k
            THEN [x EXCEPT !.d = FSE_updateBitStream(r.d, mem), !.states[k] = r.value]
            ELSE x
        Next4(x) == State(x, 4, FSE_readBits(x.d, tableLog))
        Next3(x) == Next4(State(x, 3, FSE_readBits(x.d, tableLog)))
        Next2(x) == Next3(State(x, 2, FSE_readBits(x.d, tableLog)))
        Next1(x) == Next2(State(x, 1, FSE_readBits(x.d, tableLog)))
        Started(x) ==
            [null |-> FALSE, iend |-> iend, nbStates |-> nbStates, d |-> x.d,
             state1 |-> x.states[1], state2 |-> x.states[2],
             state3 |-> x.states[3], state4 |-> x.states[4]]
    IN  IF safe /\ iend > p + maxCompressedSize
        THEN [null |-> TRUE, iend |-> iend, nbStates |-> nbStates, d |-> d0,
              state1 |-> junk, state2 |-> junk, state3 |-> junk, state4 |-> junk]
        ELSE Started(Next1([d |-> d0, states |-> <<junk, junk, junk, junk>>]))

\* ------------------------------------------------------------ decoder loop
\* the loop test of FSE_decompressStreams_usingDTable_generic
DecodeGoesOn(op, limit, ip, compressed, safe) ==
    IF safe THEN op < limit /\ ip >= compressed ELSE op < limit

\* one pass of the "Hot loop"
DecodeHotStep(x, mem, DTable) ==
    LET Second(a, b) ==
            [x EXCEPT !.dst = (IF x.nbStates = 2 THEN Append(x.dst, a.symbol) ELSE x.dst)
                              \o <<b.symbol>>,
                      !.state2 = a.state,
                      !.state1 = b.state,
                      !.d = FSE_updateBitStream(b.d, mem)]
        First(a) ==
            Second(a, FSE_decodeSymbol(x.state1,
                                       IF x.nbStates = 2 /\ FSE_MAX_TABLELOG * 2 + 7 > 32
                                       THEN FSE_updateBitStream(a.d, mem) ELSE a.d,
                                       DTable))
    IN  First(IF x.nbStates = 2 THEN FSE_decodeSymbol(x.state2, x.d, DTable)
              ELSE [symbol |-> 0, state |-> x.state2, d |-> x.d])

\* the hot loop with op = Len(x.dst): up to the middle of what is left, then up to limit
RECURSIVE DecodeHot(_, _, _, _, _, _)
DecodeHot(x, limit, mem, compressed, DTable, safe) ==
    LET op == Len(x.dst)
        mid == (op + limit) \div 2
    IN  IF ~DecodeGoesOn(op, limit, x.d.ip, compressed, safe) THEN x
        ELSE IF mid <= op
        THEN DecodeHot(DecodeHotStep(x, mem, DTable), limit, mem, compressed, DTable, safe)
        ELSE DecodeHot(DecodeHot(x, mid, mem, compressed, DTable, safe),
                       limit, mem, compressed, DTable, safe)

\* one pass of the "last bytes" loop
DecodeLastStep(x, mem, DTable) ==
    LET Decoded(b) ==
            [x EXCEPT !.dst = Append(x.dst, b.symbol),
                      !.state1 = b.state,
                      !.d = FSE_updateBitStream(b.d, mem)]
    IN  Decoded(FSE_decodeSymbol(x.state1, x.d, DTable))

\* the last bytes loop, split in the same way
RECURSIVE DecodeLast(_, _, _, _, _, _)
DecodeLast(x, limit, mem, compressed, DTable, safe) ==
    LET op == Len(x.dst)
        mid == (op + limit) \div 2
    IN  IF ~DecodeGoesOn(op, limit, x.d.ip, compressed, safe) THEN x
        ELSE IF mid <= op
        THEN DecodeLast(DecodeLastStep(x, mem, DTable), limit, mem, compressed, DTable, safe)
        ELSE DecodeLast(DecodeLast(x, mid, mem, compressed, DTable, safe),
                        limit, mem, compressed, DTable, safe)

\* FSE_decompressStreams_usingDTable_generic(dest, originalSize, compressed, maxCompressedSize, DTable, tableLog, safe, nbStates)
\* compressed: the offset of the stream in mem; dst: the bytes stored at dest, in order;
\* ip, bitsConsumed: the read cursor at the end; top: the highest offset of mem read
\* (the descriptor at compressed, the container at iend-4 and then downwards)
FSE_decompressStreams_usingDTable_generic(originalSize, mem, compressed, maxCompressedSize, DTable, tableLog, safe) ==
    LET Started(i) ==
            IF i.null THEN [ret |-> ERROR, dst |-> <<>>, ip |-> compressed,
                            bitsConsumed |-> i.d.bitsConsumed, top |-> compressed + 3]
            ELSE
            LET nbStates == i.nbStates
                oend == originalSize - nbStates
                olimit == oend - CRem(originalSize - nbStates, nbStates)
                Decoded(x2) ==
                    LET dst == x2.dst \o (IF nbStates >= 2 THEN <<x2.state2 % 256>> ELSE <<>>)
                                      \o <<x2.state1 % 256>>
                    IN  [ret |-> IF x2.d.ip # compressed \/ x2.d.bitsConsumed # 0
                                 THEN ERROR ELSE i.iend - x2.d.ip,
                         dst |-> dst, ip |-> x2.d.ip, bitsConsumed |-> x2.d.bitsConsumed,
                         top |-> Max(compressed + 3, i.iend - 1)]
            IN  Decoded(DecodeLast(DecodeHot([dst |-> <<>>, state1 |-> i.state1,
                                              state2 |-> i.state2, d |-> i.d,
                                              nbStates |-> nbStates],
                                             olimit, mem, compressed, DTable, safe),
                                   oend, mem, compressed, DTable, safe))
    IN  Started(FSE_initDecompressionStream_generic(mem, compressed, tableLog,
                                                    maxCompressedSize, safe))

\* U32 FSE_getNbStates(const void* buffer)
FSE_getNbStates(mem, p) == (ReadU32(mem, p)[2] \div 16384) + 1

\* FSE_decompress_usingDTable_generic(dest, originalSize, compressed, maxCompressedSize, DTable, tableLog, safe)
FSE_decompress_usingDTable_generic(originalSize, mem, compressed, maxCompressedSize, DTable, tableLog, safe) ==
    IF FSE_getNbStates(mem, compressed) \in {1, 2}
    THEN FSE_decompressStreams_usingDTable_generic(originalSize, mem, compressed,
                                                   maxCompressedSize, DTable, tableLog, safe)
    ELSE [ret |-> ERROR, dst |-> <<>>, ip |-> compressed, bitsConsumed |-> 0,
          top |-> compressed + 3]

\* int FSE_decompress_usingDTable (unsigned char* dest, const int originalSize, const void* compressed, const void* DTable, const int tableLog)
FSE_decompress_usingDTable(originalSize, mem, compressed, DTable, tableLog) ==
    FSE_decompress_usingDTable_generic(originalSize, mem, compressed, 0, DTable, tableLog, FALSE)

\* a header id that keeps only the lowest bit of the first byte
HeaderId_lowBit(byte0) == byte0 % 2

\* headerId = ip[0] & 3;
HeaderId(byte0) == byte0 % 4

\* FSE_decompress_generic (dest, originalSize, compressed, maxCompressedSize, safe)
\* mem: the memory at compressed; top: the highest offset of mem that was read (-1: none)
FSE_decompress_generic(originalSize, mem, maxCompressedSize, safe) ==
    LET Copied(r, top) == [ret |-> r.ret, dst |-> r.dst, top |-> top]
        Decoded(h, z) ==
            [ret |-> IF z.ret = ERROR THEN ERROR ELSE h.ret + z.ret,
             dst |-> z.dst, top |-> Max(h.ip + 3, z.top)]
        Built(h, t) ==
            IF t.ret = ERROR THEN [ret |-> ERROR, dst |-> <<>>, top |-> h.ip + 3]
            ELSE Decoded(h, FSE_decompress_usingDTable_generic(originalSize, mem, h.ret,
                                maxCompressedSize, t.DTable, h.tableLog, safe))
        Header(h) ==
            IF h.ret < 0 THEN [ret |-> h.ret, dst |-> <<>>, top |-> h.ip + 3]
            ELSE Built(h, FSE_buildDTable(h.normalizedCounter, h.nbSymbols, h.tableLog))
    IN  IF safe /\ maxCompressedSize < 2 THEN [ret |-> ERROR, dst |-> <<>>, top |-> -1]
        ELSE IF ByteAt(mem, 0) = 0
        THEN Copied(FSE_decompressRaw(originalSize, mem), Max(0, originalSize))
        ELSE IF ByteAt(mem, 0) = 1
        THEN Copied(FSE_decompressSingleSymbol(originalSize, ByteAt(mem, 1)), 1)
        ELSE IF HeaderId(ByteAt(mem, 0)) # 2 THEN [ret |-> ERROR, dst |-> <<>>, top |-> 0]
        ELSE Header(FSE_readHeader(mem))

\* int FSE_decompress (unsigned char* dest, int originalSize, const void* compressed)
FSE_decompress(originalSize, mem) == FSE_decompress_generic(originalSize, mem, 0, FALSE)

\* int FSE_decompress_safe (unsigned char* dest, int originalSize, const void* compressed, int maxCompressedSize)
FSE_decompress_safe(originalSize, mem, maxCompressedSize) ==
    FSE_decompress_generic(originalSize, mem, maxCompressedSize, TRUE)

\* ------------------------------------------------------------------ bounds
\* head runs of the codec's buffers: 1, 2, ShortRun and LongRun bytes
ShortRun == 11
LongRun == 33
\* a buffer's tail has 0..MaxTail bytes
MaxTail == 3
\* the header codec is run on tableLog FSE_MIN_TABLELOG..MaxHeaderLog
MaxHeaderLog == 7
\* and on zero runs of 0..MaxZeroRun symbols
MaxZeroRun == 50
\* raw counts given to FSE_normalizeCount go up to MaxCount
MaxCount == 6
\* FSE_spreadSymbols8 is run on tableLog FSE_MIN_TABLELOG..MaxSpreadLog
MaxSpreadLog == 7
\* with the first two weights in 0..MaxWeight
MaxWeight == 8
\* FSE_count is run on sources of 0..MaxSourceLen bytes
MaxSourceLen == 5
\* FSE_writeHeader is called with tableLog up to MaxLogExcess outside 5..12
MaxLogExcess == 2
\* and with counts that sum to up to MaxOverspend more than the table size
MaxOverspend == 2
\* the coding tables are built for tableLog FSE_MIN_TABLELOG..MaxBuildLog
MaxBuildLog == 5
\* with a first weight in 0..MaxBuildWeight
MaxBuildWeight == 3
\* and used on sources of 2..MaxStreamLen symbols
MaxStreamLen == 5
\* FSE_readHeader is given zero runs of up to LongZeroWords 0xFFFF words
LongZeroWords == 11

JunkBytes == {0, 255}
Idle == [ret |-> 0]

\* ------------------------------------------------------------ codec machine
Symbols == {0, 31, 65}
Hints == {0, FSE_MIN_TABLELOG}
Caps == {0, FSE_MAX_NB_SYMBOLS_CHAR}

Run(symbol, n) == Array([i \in 1..n |-> symbol])

\* raw counts of 31 symbols, total 111
SkewedCounts ==
    <<6, 6, 6, 1, 6, 6, 6, 1, 6, 1, 6, 1, 1, 1, 1, 1, 1, 1, 6, 6, 6, 6, 6, 6, 6, 6, 1, 1, 1, 1, 1>>

\* symbol s, SkewedCounts[s] times, for s = lo .. 30
RECURSIVE SkewedFrom(_)
SkewedFrom(lo) ==
    IF lo >= Len(SkewedCounts) THEN <<>>
    ELSE Run(lo, SkewedCounts[lo + 1]) \o SkewedFrom(lo + 1)
SkewedBuffer == SkewedFrom(0)

Buffers ==
    {Run(a, i) \o Run(b, j) : a \in Symbols, b \in Symbols,
                              i \in {1, 2, ShortRun, LongRun}, j \in 0..MaxTail}
    \cup {SkewedBuffer}

\* what the local CTable of FSE_compress2 may hold before it is built
GarbageTT ==
    {[minBitsOut |-> 0, deltaFindState |-> 0, maxState |-> 0, state |-> 0],
     [minBitsOut |-> 3, deltaFindState |-> 0, maxState |-> 65535, state |-> 40]}

\* the globals of fse.c when the program starts
StatsZero == [overhead |-> 0, data |-> 0, uncompressed |-> 0, entropyTerms |-> 0]

\* the globals after a call of FSE_compress2 that did r on sourceSize bytes;
\* stats_block_entropy is a sum of logarithms, kept here as its number of terms
StatsAfter(old, r, sourceSize) ==
    [overhead |-> IF r.stats >= 1 THEN r.overhead ELSE old.overhead,
     data |-> IF r.stats = 2 THEN r.data ELSE old.data,
     uncompressed |-> IF r.stats = 2 THEN sourceSize ELSE old.uncompressed,
     entropyTerms |-> old.entropyTerms + r.entropyTerms]

Init ==
    /\ junk \in JunkBytes
    /\ pc = "ready"
    /\ buffer \in Buffers
    /\ hint \in Hints
    /\ nbSym \in Caps
    /\ frame = Idle /\ frame2 = Idle /\ plain = Idle /\ guarded = Idle
    /\ stats = StatsZero
    /\ arg = Idle /\ res = Idle /\ back = Idle

\* a call that neither hangs nor dies gives control back
Returned(r) == r.ret # HANG /\ r.ret # CRASH

Compress ==
    /\ pc = "ready"
    /\ \E g \in GarbageTT : frame' = FSE_compress2(buffer, Len(buffer), nbSym, hint, g)
    /\ stats' = StatsAfter(stats, frame', Len(buffer))
    /\ pc' = "compressed"
    /\ UNCHANGED <<junk, buffer, hint, nbSym, frame2, plain, guarded, callVars>>

CompressAgain ==
    /\ pc = "compressed"
    /\ Returned(frame)
    /\ \E g \in GarbageTT : frame2' = FSE_compress2(buffer, Len(buffer), nbSym, hint, g)
    /\ stats' = StatsAfter(stats, frame2', Len(buffer))
    /\ pc' = "again"
    /\ UNCHANGED <<junk, buffer, hint, nbSym, frame, plain, guarded, callVars>>

Decompress ==
    /\ pc = "compressed"
    /\ frame.ret > 0
    /\ plain' = FSE_decompress(Len(buffer), frame.out)
    /\ pc' = "decoded"
    /\ UNCHANGED <<junk, buffer, hint, nbSym, frame, frame2, guarded, stats, callVars>>

DecompressSafe ==
    /\ pc = "compressed"
    /\ frame.ret > 0
    /\ \E k \in 0..(frame.ret + 1) :
           LET Guarded(r) == [k |-> k, ret |-> r.ret, top |-> r.top]
           IN  guarded' = Guarded(FSE_decompress_safe(Len(buffer), frame.out, k))
    /\ pc' = "guarded"
    /\ UNCHANGED <<junk, buffer, hint, nbSym, frame, frame2, plain, stats, callVars>>

Next == Compress \/ CompressAgain \/ Decompress \/ DecompressSafe

Spec == Init /\ [][Next]_vars

\* the machines below call one function; the codec's variables stay as they are
CodecIdle ==
    /\ buffer = <<>> /\ hint = 0 /\ nbSym = 0
    /\ frame = Idle /\ frame2 = Idle /\ plain = Idle /\ guarded = Idle
    /\ stats = StatsZero

\* ----------------------------------------------------------- header machine
\* normalized counts a, z1 zeros, b, z2 zeros, and the rest of 2^tableLog
HeaderCounts(tableLog) ==
    {<<a>> \o Zeros(z1) \o <<b>> \o Zeros(z2) \o <<Pow2(tableLog) - a - b>> :
        a \in {0, 1, Pow2(tableLog - 1)}, b \in 0..2, z1 \in 0..MaxZeroRun, z2 \in 0..3}

Headers ==
    UNION {{[N |-> n, nbSymbols |-> Len(n), tableLog |-> tl] : n \in HeaderCounts(tl)} :
              tl \in FSE_MIN_TABLELOG..MaxHeaderLog}

InitHeader ==
    /\ junk \in JunkBytes
    /\ pc = "header"
    /\ arg \in Headers
    /\ res = Idle /\ back = Idle
    /\ CodecIdle

WriteHeader ==
    /\ pc = "header"
    /\ res' = FSE_writeHeader(arg.N, arg.nbSymbols, arg.tableLog)
    /\ pc' = "written"
    /\ UNCHANGED <<junk, arg, back, codecVars>>

\* the reader is given the header's bytes; what follows them in memory is junk
ReadHeader ==
    /\ pc = "written"
    /\ res.ret > 0
    /\ back' = FSE_readHeader(res.out)
    /\ pc' = "read"
    /\ UNCHANGED <<junk, arg, res, codecVars>>

\* the writer on arg.N and the reader on the header written, both before
\* their loops
WalkStart ==
    /\ pc = "written"
    /\ res.ret > 0
    /\ back' = [w |-> WH_Init(arg.tableLog), r |-> RH_Init(res.out), passes |-> 0,
                before |-> Pow2(arg.tableLog)]
    /\ pc' = "walking"
    /\ UNCHANGED <<junk, arg, res, codecVars>>

\* one pass of while (remaining>0) in each: the next count is written by the
\* one and read by the other, after the zero run before it if there is one
WalkPass ==
    /\ pc = "walking"
    /\ back.w.remaining > 0 /\ back.r.remaining > 0
    /\ ~back.w.hang /\ ~back.r.hang /\ ~back.r.crash
    /\ back' = [w |-> WH_Pass(back.w, arg.N), r |-> RH_Pass(back.r, res.out),
                passes |-> back.passes + 1, before |-> back.r.remaining]
    /\ pc' = "walking"
    /\ UNCHANGED <<junk, arg, res, codecVars>>

NextHeader == WriteHeader \/ ReadHeader \/ WalkStart \/ WalkPass

SpecHeader == InitHeader /\ [][NextHeader]_vars

\* ---------------------------------------------------- normalization machine
\* raw counts of four symbols, the last one present, and the skewed counts
\* 40 symbols of which two are present, total 7
SparseCounts == <<3>> \o Zeros(38) \o <<4>>
\* a total above 2^FSE_MAX_TABLELOG
LargeCounts == <<3000, 0, 2000, 1>>

\* one symbol, with a total above the table size
SingleCounts == <<0, 100>>
\* totals above 2^18, which are shifted down before they are scaled
HugeSingleCounts == <<0, 0, 300000>>
HugeCounts == <<300000, 0, 1>>
\* as many symbols as a table of 2^FSE_MIN_TABLELOG cells, total twice that
FullCounts == Run(2, Pow2(FSE_MIN_TABLELOG))

CountVectors ==
    {<<a, b, c, d>> : a \in 0..MaxCount, b \in 0..MaxCount, c \in 0..MaxCount, d \in 1..MaxCount}
    \cup {SkewedCounts, SparseCounts, LargeCounts}
    \cup {SingleCounts, HugeSingleCounts, HugeCounts, FullCounts}

NormHints == {0, FSE_MIN_TABLELOG, FSE_MIN_TABLELOG + 1, FSE_MAX_TABLELOG + 1}

InitNorm ==
    /\ junk \in JunkBytes
    /\ pc = "counts"
    /\ arg \in {[count |-> c, total |-> SumSeq(c), nbSymbols |-> Len(c), tableLog |-> h] :
                   c \in CountVectors, h \in NormHints}
    /\ res = Idle /\ back = Idle
    /\ CodecIdle

Normalize ==
    /\ pc = "counts"
    /\ res' = FSE_normalizeCount(arg.tableLog, arg.count, arg.total, arg.nbSymbols)
    /\ pc' = "normalized"
    /\ UNCHANGED <<junk, arg, back, codecVars>>

NextNorm == Normalize

SpecNorm == InitNorm /\ [][NextNorm]_vars

\* ----------------------------------------------------------- spread machine
\* weights a, 0, b and the rest of 2^tableLog
SpreadCounts(tableLog) ==
    {<<a, 0, b, Pow2(tableLog) - a - b>> : a \in 0..MaxWeight, b \in 0..MaxWeight}

InitSpread ==
    /\ junk \in JunkBytes
    /\ pc = "weights"
    /\ arg \in UNION {{[N |-> n, nbSymbols |-> Len(n), tableLog |-> tl] : n \in SpreadCounts(tl)} :
                         tl \in FSE_MIN_TABLELOG..MaxSpreadLog}
    /\ res = Idle /\ back = Idle
    /\ CodecIdle

Spread ==
    /\ pc = "weights"
    /\ res' = FSE_spreadSymbols8(arg.N, arg.nbSymbols, arg.tableLog)
    /\ pc' = "spread"
    /\ UNCHANGED <<junk, arg, back, codecVars>>

NextSpread == Spread

SpecSpread == InitSpread /\ [][NextSpread]_vars

\* --------------------------------------------------------- counting machine
CountSymbols == {0, 1, 5}
CountCaps == {1, 2, 6, FSE_MAX_NB_SYMBOLS_CHAR, FSE_MAX_NB_SYMBOLS_CHAR + 1}

Sources == {Array(f) : f \in UNION {[1..n -> CountSymbols] : n \in 0..MaxSourceLen}}

InitCount ==
    /\ junk \in JunkBytes
    /\ pc = "source"
    /\ arg \in {[source |-> src, maxNbSymbols |-> m] : src \in Sources, m \in CountCaps}
    /\ res = Idle /\ back = Idle
    /\ CodecIdle

Count ==
    /\ pc = "source"
    /\ res' = FSE_count(arg.source, Len(arg.source), arg.maxNbSymbols)
    /\ pc' = "counted"
    /\ UNCHANGED <<junk, arg, back, codecVars>>

NextCount == Count

SpecCount == InitCount /\ [][NextCount]_vars

\* ------------------------------------------------------ single calls machine
\* calls of the header codec on arguments that no normalization produced
WriterLogs == (FSE_MIN_TABLELOG - MaxLogExcess)..(FSE_MAX_TABLELOG + MaxLogExcess)

\* counts a, b and what is left of 2^tableLog, plus e
WriterCalls ==
    {[op |-> "write", N |-> <<a, b, Pow2(tl) - a - b + e>>, nbSymbols |-> 3, tableLog |-> tl] :
        tl \in WriterLogs, a \in {0, 1, 3}, b \in {0, 2}, e \in 0..MaxOverspend}

\* the header of a table with one symbol of weight 2^tableLog: the mode bits,
\* the 4-bit field and the count in tableLog + 1 bits
HeaderOfOne(tableLog) ==
    ContainerBytes(2 + (tableLog - FSE_MIN_TABLELOG) * 4 + (Pow2(tableLog + 1) - 1) * 64,
                   (6 + tableLog + 1 + 7) \div 8)

\* a header for tableLog 5: a count of 0, a zero run of k 0xFFFF words and a
\* 2-bit group 0 (24 * k symbols), then the count 32 that ends the table
ZeroRunHeader(k) == <<2, 248>> \o Run(255, 2 * k - 1) \o <<231, 7>>

\* a header for tableLog 5 that holds counts of 0 only
EndlessHeader == <<2, 0, 0, 0, 0, 0>>

\* every value of the 4-bit field; zero runs of 24 to 24 * LongZeroWords symbols
ReaderCalls ==
    {[op |-> "read", mem |-> HeaderOfOne(FSE_MIN_TABLELOG + field)] : field \in 0..15}
    \cup {[op |-> "read", mem |-> ZeroRunHeader(k)] : k \in {1, LongZeroWords - 1, LongZeroWords}}
    \cup {[op |-> "read", mem |-> EndlessHeader]}

\* the sources of the frames given to FSE_decompress: two bytes kept raw, a
\* run of one symbol, and sources coded with tableLog 5, 6 and 7
FrameSources ==
    {<<0, 31>>, Run(65, 3), Run(0, 2 * ShortRun) \o <<1>>,
     Run(0, LongRun - 3) \o Run(1, 3) \o <<31>>, SkewedBuffer}
FrameCalls == {[op |-> "frame", source |-> b] : b \in FrameSources}

\* descriptor &= 0x3FFFFFFF; descriptor >>= 3: the bits of the stream length
DescriptorLenBits == 27

\* the encoder states FSE_closeCompressionStream stores, in [T, 2T)
ClosedStates(tableLog) == [k \in 1..4 |-> Pow2(tableLog) + ((977 * k) % Pow2(tableLog))]

\* FSE_closeCompressionStream with 0 to 5 states, on a container of 0 to 7
\* pending bits after 0 or 2 payload bytes
CloseCalls ==
    {[op |-> "close", nbStates |-> n, tableLog |-> tl, states |-> ClosedStates(tl),
      bitC |-> [bitContainer |-> 85 % Pow2(b), bitPos |-> b, out |-> o]] :
        n \in 0..5, tl \in {FSE_MIN_TABLELOG, FSE_MAX_TABLELOG}, b \in 0..7,
        o \in {<<>>, <<170, 85>>}}

\* the lengths of the streams whose descriptor alone is written
DescribedLengths ==
    {4, 5, 65536 + 258, Pow2(DescriptorLenBits) - 1, Pow2(DescriptorLenBits)}

\* the descriptor of a stream of byteLen bytes with bitPos unused bits
DescribeCalls ==
    {[op |-> "describe", nbStates |-> n, byteLen |-> len, bitPos |-> b] :
        n \in 1..4, len \in DescribedLengths, b \in 0..7}

InitCalls ==
    /\ junk \in JunkBytes
    /\ pc = "call"
    /\ arg \in WriterCalls \cup ReaderCalls \cup FrameCalls \cup CloseCalls \cup DescribeCalls
    /\ res = Idle /\ back = Idle
    /\ CodecIdle

WriteCall ==
    /\ pc = "call"
    /\ arg.op = "write"
    /\ res' = FSE_writeHeader(arg.N, arg.nbSymbols, arg.tableLog)
    /\ pc' = "returned"
    /\ UNCHANGED <<junk, arg, back, codecVars>>

ReadCall ==
    /\ pc = "call"
    /\ arg.op = "read"
    /\ res' = FSE_readHeader(arg.mem)
    /\ pc' = "returned"
    /\ UNCHANGED <<junk, arg, back, codecVars>>

\* FSE_compress on one of the sources of FrameCalls
CompressCall ==
    /\ pc = "call"
    /\ arg.op = "frame"
    /\ \E g \in GarbageTT : res' = FSE_compress(arg.source, Len(arg.source), g)
    /\ stats' = StatsAfter(stats, res', Len(arg.source))
    /\ pc' = "framed"
    /\ UNCHANGED <<junk, arg, back, buffer, hint, nbSym, frame, frame2, plain, guarded>>

\* FSE_decompress on that frame with any first byte in the place of its own
DecodeCall ==
    /\ pc = "framed"
    /\ res.ret > 0
    /\ \E b \in 0..255 :
           LET Forged(mem) ==
                   [byte0 |-> b, mem |-> mem, y |-> FSE_decompress(Len(arg.source), mem)]
           IN  back' = Forged([res.out EXCEPT ![1] = b])
    /\ pc' = "decoded"
    /\ UNCHANGED <<junk, arg, res, codecVars>>

\* FSE_closeCompressionStream on a container of CloseCalls
CloseCall ==
    /\ pc = "call"
    /\ arg.op = "close"
    /\ res' = FSE_closeCompressionStream(arg.bitC, arg.nbStates, arg.states[1], arg.states[2],
                                         arg.states[3], arg.states[4],
                                         [tableLog |-> arg.tableLog])
    /\ pc' = "closed"
    /\ UNCHANGED <<junk, arg, back, codecVars>>

\* the last lines of FSE_closeCompressionStream on a stream of arg.byteLen
\* bytes, of which the 4 of the descriptor are kept
DescribeCall ==
    /\ pc = "call"
    /\ arg.op = "describe"
    /\ res' = [ret |-> arg.byteLen,
               out |-> U32Bytes(StreamDescriptor(arg.byteLen, arg.bitPos, arg.nbStates))]
    /\ pc' = "closed"
    /\ UNCHANGED <<junk, arg, back, codecVars>>

\* FSE_initDecompressionStream on the stream, and FSE_initDecompressionStream_safe
\* with no byte allowed, which returns once the descriptor is taken apart
OpenCall ==
    /\ pc = "closed"
    /\ res.ret > 0
    /\ \E safe \in BOOLEAN :
           back' = FSE_initDecompressionStream_generic(
                       res.out, 0, IF arg.op = "close" THEN arg.tableLog ELSE FSE_MIN_TABLELOG,
                       0, safe)
    /\ pc' = "opened"
    /\ UNCHANGED <<junk, arg, res, codecVars>>

NextCalls ==
    \/ WriteCall \/ ReadCall \/ CompressCall \/ DecodeCall
    \/ CloseCall \/ DescribeCall \/ OpenCall

SpecCalls == InitCalls /\ [][NextCalls]_vars

\* ----------------------------------------------------------- tables machine
\* weights a, 0, b and a last one that brings the sum to 2^tableLog + d
BuildCounts(tableLog) ==
    {n \in {<<a, 0, b, Pow2(tableLog) + d - a - b>> :
                a \in 0..MaxBuildWeight, b \in {0, 1, 6},
                d \in {-Pow2(tableLog), -1, 0, 1, Pow2(tableLog)}} : n[4] >= 0}

\* weights of 2^tableLog + 1 symbols: the first and the last one are present
WideCounts(tableLog) == <<Pow2(tableLog) - 1>> \o Zeros(Pow2(tableLog) - 1) \o <<1>>

InitBuild ==
    /\ junk \in JunkBytes
    /\ pc = "counts given"
    /\ arg \in UNION {{[N |-> n, nbSymbols |-> Len(n), tableLog |-> tl] :
                          n \in BuildCounts(tl) \cup {WideCounts(tl)}} :
                         tl \in FSE_MIN_TABLELOG..MaxBuildLog}
    /\ res = Idle /\ back = Idle
    /\ CodecIdle

\* FSE_buildCTable and FSE_buildDTable on the same counts
BuildTables ==
    /\ pc = "counts given"
    /\ \E g \in GarbageTT :
           res' = [ct |-> FSE_buildCTable(arg.N, arg.nbSymbols, arg.tableLog, g),
                   dt |-> FSE_buildDTable(arg.N, arg.nbSymbols, arg.tableLog)]
    /\ pc' = "built"
    /\ UNCHANGED <<junk, arg, back, codecVars>>

\* the sources given to the encoder: the first and the last symbol of the table
StreamSymbols == {0, 3}
StreamSources ==
    {Array(f) : f \in UNION {[1..n -> StreamSymbols] : n \in 2..MaxStreamLen}}

\* FSE_compress_usingCTable with the CTable just built; the encoder is given
\* tables of counts that sum to the table size, as FSE_normalizeCount leaves them
EncodeStream ==
    /\ pc = "built"
    /\ res.ct.ret = 0
    /\ SumSeq(arg.N) = Pow2(arg.tableLog)
    /\ \E src \in StreamSources :
           back' = [source |-> src,
                    z |-> FSE_compress_usingCTable(src, Len(src), res.ct.CTable)]
    /\ pc' = "encoded"
    /\ UNCHANGED <<junk, arg, res, codecVars>>

\* FSE_decompress_usingDTable on that stream, asked for as many symbols as
\* were encoded, one less or one more
DecodeStream ==
    /\ pc = "encoded"
    /\ res.dt.ret = 0
    /\ back.z.ret > 0
    /\ \E m \in (Len(back.source) - 1)..(Len(back.source) + 1) :
           back' = [source |-> back.source, z |-> back.z, originalSize |-> m,
                    y |-> FSE_decompress_usingDTable(m, back.z.out, 0, res.dt.DTable,
                                                     arg.tableLog)]
    /\ pc' = "streamed"
    /\ UNCHANGED <<junk, arg, res, codecVars>>

\* a read container whose first nbBits bits are those of value; the 32 - nbBits
\* bits that follow are all equal to fill
FedContainer(value, nbBits, fill) ==
    U32Add(U32Shl(U32(value), 32 - nbBits), U32Shr(<<fill * 65535, fill * 65535>>, nbBits))

\* one FSE_encodeByte from state x into an empty container, then one
\* FSE_decodeSymbol from the state that the encoder reached, fed the bits
\* that the encoder wrote
Step ==
    /\ pc = "built"
    /\ res.ct.ret = 0 /\ res.dt.ret = 0
    /\ SumSeq(arg.N) = Pow2(arg.tableLog)
    /\ \E s \in {k \in 0..(arg.nbSymbols - 1) : arg.N[k + 1] > 0},
          x \in Pow2(arg.tableLog)..(2 * Pow2(arg.tableLog) - 1),
          fill \in {0, 1} :
           LET Fed(e) ==
                   [symbol |-> s, state |-> x, e |-> e,
                    y |-> FSE_decodeSymbol(e.state - Pow2(arg.tableLog),
                                           [ip |-> 0,
                                            bitContainer |-> FedContainer(e.bitC.bitContainer,
                                                                          e.bitC.bitPos, fill),
                                            bitsConsumed |-> 0],
                                           res.dt.DTable)]
           IN  back' = Fed(FSE_encodeByte(x, [bitContainer |-> 0, bitPos |-> 0, out |-> <<>>],
                                          s, res.ct.CTable))
    /\ pc' = "stepped"
    /\ UNCHANGED <<junk, arg, res, codecVars>>

\* the sources of the encoder followed byte by byte: the first and the last
\* symbol of the table
StepSources(nbSymbols) ==
    {Array(f) : f \in UNION {[1..n -> {0, nbSymbols - 1}] : n \in 2..MaxStreamLen}}

\* FSE_compress_usingCTable_generic up to its first loop: the two states take
\* the last two bytes; turn says which FSE_encodeByte of the loops comes next
EncodeStart ==
    /\ pc = "built"
    /\ res.ct.ret = 0
    /\ SumSeq(arg.N) = Pow2(arg.tableLog)
    /\ \E src \in StepSources(arg.nbSymbols) :
           LET n == Len(src)
               nbCatchup == CRem(n - (1 + FSE_ILP), 2)
           IN  back' = [source |-> src,
                        e |-> [state1 |-> Pow2(arg.tableLog) + src[n],
                               state2 |-> Pow2(arg.tableLog) + src[n - 1],
                               bitC |-> [bitContainer |-> 0, bitPos |-> 0, out |-> <<>>],
                               ip |-> n - (1 + FSE_ILP)],
                        turn |-> IF nbCatchup # 0 THEN "catchup" ELSE "first",
                        steps |-> 0,
                        emitted |-> <<>>,
                        last |-> [symbol |-> 0, from |-> 0, nbBits |-> 0, index |-> 0, to |-> 0]]
    /\ pc' = "encoding"
    /\ UNCHANGED <<junk, arg, res, codecVars>>

\* the next FSE_encodeByte of the loops: on state1 in the catch-up loop and as
\* the first of a pair, on state2 as the second of a pair, which ends with
\* FSE_flushBits; last keeps what the step did, emitted the fields added to
\* the bit container so far, as <<number of bits, value>>
EncodeByte ==
    /\ pc = "encoding"
    /\ back.e.ip > 0
    /\ LET e == back.e
           symbol == back.source[e.ip]
           state == IF back.turn = "second" THEN e.state2 ELSE e.state1
           tt == CT_SymbolTT(res.ct.CTable, symbol)
           nbBits == EncodeNbBits(tt, state)
           Encoded(a) ==
               [back EXCEPT
                  !.e = [state1 |-> IF back.turn = "second" THEN e.state1 ELSE a.state,
                         state2 |-> IF back.turn = "second" THEN a.state ELSE e.state2,
                         bitC |-> IF back.turn = "first" THEN a.bitC ELSE FSE_flushBits(a.bitC),
                         ip |-> e.ip - 1],
                  !.turn = IF back.turn = "first" THEN "second" ELSE "first",
                  !.steps = back.steps + 1,
                  !.emitted = Append(back.emitted,
                                     <<a.bitC.bitPos - e.bitC.bitPos,
                                       (a.bitC.bitContainer - e.bitC.bitContainer)
                                           \div Pow2(e.bitC.bitPos)>>),
                  !.last = [symbol |-> symbol, from |-> state, nbBits |-> nbBits,
                            index |-> Shr(state, nbBits) + tt.deltaFindState,
                            to |-> a.state]]
       IN  back' = Encoded(FSE_encodeByte(state, e.bitC, symbol, res.ct.CTable))
    /\ pc' = "encoding"
    /\ UNCHANGED <<junk, arg, res, codecVars>>

\* no byte is left: FSE_closeCompressionStream writes the states and the descriptor
EncodeClose ==
    /\ pc = "encoding"
    /\ back.e.ip = 0
    /\ back' = [source |-> back.source, e |-> back.e, steps |-> back.steps,
                emitted |-> back.emitted
                            \o (IF FSE_ILP = 1
                                THEN <<<<arg.tableLog, back.e.state2 % Pow2(arg.tableLog)>>>>
                                ELSE <<>>)
                            \o <<<<arg.tableLog, back.e.state1 % Pow2(arg.tableLog)>>>>,
                z |-> FSE_closeCompressionStream(back.e.bitC, 1 + FSE_ILP, back.e.state1,
                                                 back.e.state2, Pow2(arg.tableLog), 0,
                                                 res.ct.CTable)]
    /\ pc' = "closed"
    /\ UNCHANGED <<junk, arg, res, codecVars>>

\* what a FSE_readBits of nbBits bits from d adds to the observations o:
\* the field taken, the widest bitsConsumed + nbBits, the reads since a refill
Observed(o, d, nbBits, value) ==
    [o EXCEPT !.taken = Append(o.taken, <<nbBits, value>>),
              !.window = Max(o.window, d.bitsConsumed + nbBits),
              !.reads = o.reads + 1,
              !.maxReads = Max(o.maxReads, o.reads + 1)]

\* what a FSE_updateBitStream from d to d2 adds to them
Refilled(o, d, d2) ==
    [o EXCEPT !.reads = 0, !.refills = o.refills + 1, !.from = d, !.to = d2]

\* FSE_decompressStreams_usingDTable_generic up to its first loop, on the
\* stream just closed: FSE_initDecompressionStream reads the descriptor and
\* the states, each followed by FSE_updateBitStream
DecodeStart ==
    /\ pc = "closed"
    /\ res.dt.ret = 0
    /\ back.z.ret > 0
    /\ \E m \in (Len(back.source) - 1)..(Len(back.source) + 1) :
           LET mem == back.z.out
               Started(i) ==
                   LET d0 == [ip |-> i.iend - 4, bitContainer |-> ReadU32(mem, i.iend - 4),
                              bitsConsumed |-> U32And(ReadU32(mem, 0), 7)]
                       r1 == FSE_readBits(d0, arg.tableLog)
                       u1 == FSE_updateBitStream(r1.d, mem)
                       r2 == FSE_readBits(u1, arg.tableLog)
                       u2 == FSE_updateBitStream(r2.d, mem)
                       o0 == [taken |-> <<>>, window |-> 0, reads |-> 0, maxReads |-> 0,
                              refills |-> 0, from |-> d0, to |-> d0]
                       o1 == Refilled(Observed(o0, d0, arg.tableLog, r1.value), r1.d, u1)
                       o2 == IF i.nbStates >= 2
                             THEN Refilled(Observed(o1, u1, arg.tableLog, r2.value), r2.d, u2)
                             ELSE o1
                   IN  [source |-> back.source, emitted |-> back.emitted, z |-> back.z,
                        originalSize |-> m, iend |-> i.iend,
                        x |-> [dst |-> <<>>, state1 |-> i.state1, state2 |-> i.state2,
                               d |-> i.d, nbStates |-> i.nbStates],
                        turn |-> "pair", o |-> o2]
           IN  back' = Started(FSE_initDecompressionStream_generic(mem, 0, arg.tableLog, 0, FALSE))
    /\ pc' = "decoding"
    /\ UNCHANGED <<junk, arg, res, codecVars>>

\* oend and olimit of the decoder
DecodeEnd(b) == b.originalSize - b.x.nbStates
DecodeLimit(b) == DecodeEnd(b) - CRem(b.originalSize - b.x.nbStates, b.x.nbStates)

\* the next FSE_decodeSymbol of the loops: in the hot loop on state2 (two
\* states) and then on state1 followed by FSE_updateBitStream, in the last
\* bytes loop on state1 followed by FSE_updateBitStream
DecodeByte ==
    /\ pc = "decoding"
    /\ (back.turn = "half" \/ Len(back.x.dst) < Max(DecodeLimit(back), DecodeEnd(back)))
    /\ LET x == back.x
           mem == back.z.out
           hot == back.turn = "half" \/ Len(x.dst) < DecodeLimit(back)
           onSecond == hot /\ back.turn = "pair" /\ x.nbStates = 2
           state == IF onSecond THEN x.state2 ELSE x.state1
           nbBits == DT_Entry(res.dt.DTable, state).nbBits
           Decoded(a) ==
               LET d2 == IF onSecond THEN a.d ELSE FSE_updateBitStream(a.d, mem)
                   seen == Observed(back.o, x.d, nbBits,
                                    ReadBitsValue(x.d.bitContainer, x.d.bitsConsumed, nbBits))
               IN  [back EXCEPT
                      !.x = [dst |-> Append(x.dst, a.symbol),
                             state1 |-> IF onSecond THEN x.state1 ELSE a.state,
                             state2 |-> IF onSecond THEN a.state ELSE x.state2,
                             d |-> d2, nbStates |-> x.nbStates],
                      !.turn = IF onSecond THEN "half" ELSE "pair",
                      !.o = IF onSecond THEN seen ELSE Refilled(seen, a.d, d2)]
       IN  back' = Decoded(FSE_decodeSymbol(state, x.d, res.dt.DTable))
    /\ pc' = "decoding"
    /\ UNCHANGED <<junk, arg, res, codecVars>>

\* both loops are over: the states give the last symbols, the cursor is tested
DecodeFinish ==
    /\ pc = "decoding"
    /\ back.turn = "pair"
    /\ ~(Len(back.x.dst) < DecodeLimit(back))
    /\ ~(Len(back.x.dst) < DecodeEnd(back))
    /\ LET x == back.x
       IN  back' = [source |-> back.source, emitted |-> back.emitted, z |-> back.z,
                    originalSize |-> back.originalSize, iend |-> back.iend, o |-> back.o,
                    y |-> [ret |-> IF x.d.ip # 0 \/ x.d.bitsConsumed # 0
                                   THEN ERROR ELSE back.iend - x.d.ip,
                           dst |-> x.dst \o (IF x.nbStates >= 2 THEN <<x.state2 % 256>> ELSE <<>>)
                                         \o <<x.state1 % 256>>,
                           ip |-> x.d.ip, bitsConsumed |-> x.d.bitsConsumed]]
    /\ pc' = "finished"
    /\ UNCHANGED <<junk, arg, res, codecVars>>

NextBuild ==
    \/ BuildTables \/ EncodeStream \/ DecodeStream \/ Step
    \/ EncodeStart \/ EncodeByte \/ EncodeClose
    \/ DecodeStart \/ DecodeByte \/ DecodeFinish

SpecBuild == InitBuild /\ [][NextBuild]_vars

\* =================================================================== claims
AllEqual(b) == \A i \in 1..Len(b) : b[i] = b[1]
Occurrences(source, s) == Cardinality({i \in 1..Len(source) : source[i] = s})

\* C1: for every buffer and every supported tableLog hint, FSE_compress2 ends
\* with a frame, and FSE_decompress of that frame writes the buffer back.
C1_RoundTrip ==
    /\ pc # "ready" => frame.ret > 0
    /\ pc = "decoded" => plain.dst = buffer

\* C2: for every frame FSE_compress2 produced and every k below the frame's
\* length, FSE_decompress_safe with maxCompressedSize = k returns an error.
C2_TruncatedIsError ==
    (pc = "guarded" /\ guarded.k < frame.ret) => guarded.ret = ERROR

\* C3: FSE_readHeader applied to what FSE_writeHeader(N, n, L) wrote gives the
\* counts N, nbSymbols = n and tableLog = L back, and consumes as many bytes as
\* FSE_writeHeader returned, whatever zero runs N holds.
C3_HeaderRoundTrip ==
    /\ pc # "header" => res.ret > 0 /\ res.ret = Len(res.out)
    /\ pc = "read" =>
          /\ back.normalizedCounter = arg.N
          /\ back.nbSymbols = arg.nbSymbols
          /\ back.tableLog = arg.tableLog
          /\ back.ret = res.ret

\* a zero run of 27 symbols (one 0xFFFF word and one 2-bit group of three) was
\* written and read back
C3_LongZeroRunRead ==
    /\ pc = "read"
    /\ Len(arg.N) >= 30
    /\ arg.N[1] = 1
    /\ \A i \in 2..28 : arg.N[i] = 0
    /\ arg.N[29] = 2
    /\ back.normalizedCounter = arg.N

\* C4: FSE_normalizeCount, run in place, returns a tableLog L and leaves
\* counts that sum to 2^L, with at least 1 for every symbol that was present
\* (except when it returns 0 for a single symbol).
C4_NormalizedSum ==
    (pc = "normalized" /\ res.ret # 0) =>
        /\ res.ret \in FSE_MIN_TABLELOG..FSE_MAX_TABLELOG
        /\ SumSeq(res.count) = Pow2(res.ret)
        /\ \A s \in 1..arg.nbSymbols : arg.count[s] > 0 => res.count[s] >= 1

\* C5: compressing the same buffer with the same nbSymbols and tableLog twice
\* gives frames of the same length and the same bytes.
C5_SameFrameTwice ==
    pc = "again" => (frame2.ret = frame.ret /\ frame2.out = frame.out)

\* C6: for weights that sum to the table size, FSE_spreadSymbols8 stores to
\* every position once, symbol s gets N[s] positions, the cursor ends at 0 and
\* the function returns 0.
C6_SpreadIsPermutation ==
    pc = "spread" =>
        LET tableSize == Pow2(arg.tableLog)
        IN  /\ res.ret = 0
            /\ res.position = 0
            /\ \A p \in 1..tableSize : res.writes[p] = 1
            /\ \A s \in 0..(arg.nbSymbols - 1) :
                   Cardinality({p \in 1..tableSize : res.tableSymbolByte[p] = s}) = arg.N[s + 1]

\* a table of 128 cells was spread over three symbols, one of them with 8 cells
C6_SpreadDone ==
    /\ pc = "spread"
    /\ arg.tableLog = 7
    /\ arg.N[1] = 8 /\ arg.N[3] = 5
    /\ res.ret = 0

\* C7: a 1-byte input [b] compresses to the raw frame [0, b] with return
\* value 2, and FSE_decompress of that frame writes [b] and returns 2.
C7_OneByte ==
    Len(buffer) = 1 =>
        /\ pc # "ready" => frame.ret = 2 /\ frame.out = <<0, buffer[1]>>
        /\ pc = "decoded" => plain.dst = buffer /\ plain.ret = 2

\* the 1-byte buffer [65] went through FSE_compress2 and FSE_decompress
C7_OneByteDecoded ==
    pc = "decoded" /\ buffer = <<65>> /\ frame.out = <<0, 65>>

\* C8: an input of n >= 2 equal bytes c compresses, for every supported
\* tableLog hint, to the frame [1, c] with return value 2, and FSE_decompress
\* of that frame writes n copies of c.
C8_OneSymbol ==
    (Len(buffer) >= 2 /\ AllEqual(buffer)) =>
        /\ pc # "ready" => frame.ret = 2 /\ frame.out = <<1, buffer[1]>>
        /\ pc = "decoded" => plain.dst = buffer

\* C9: when the normal-mode output is srcSize - 1 bytes or more, FSE_compress2
\* returns the raw frame [0] ++ src of srcSize + 1 bytes; so a successful
\* return value is srcSize + 1, 2, or less than srcSize - 1.
C9_RawFallback ==
    (pc # "ready" /\ frame.ret > 0) =>
        /\ (frame.stats = 2 /\ frame.normalSize >= Len(buffer) - 1) =>
               (frame.ret = Len(buffer) + 1 /\ frame.out = <<0>> \o buffer)
        /\ \/ frame.ret = Len(buffer) + 1
           \/ frame.ret = 2
           \/ frame.ret < Len(buffer) - 1

\* the normal-mode output had exactly srcSize - 1 bytes and the raw frame was returned
C9_FallbackAtTheLimit ==
    /\ pc = "compressed"
    /\ frame.stats = 2
    /\ frame.normalSize = Len(buffer) - 1
    /\ frame.ret = Len(buffer) + 1

\* C10: for a source of srcSize >= 1 bytes and a cap in 1..256, FSE_count
\* sets count[s] to the occurrences of s for s < cap (as a plain count would),
\* returns the index of the last nonzero count plus 1, and the counts sum to
\* srcSize; with srcSize = 0 or a cap above 256 it returns an error.
C10_Count ==
    pc = "counted" =>
        IF Len(arg.source) = 0 \/ arg.maxNbSymbols > FSE_MAX_NB_SYMBOLS_CHAR
        THEN res.ret = ERROR
        ELSE /\ res.ret \in 1..arg.maxNbSymbols
             /\ \A s \in 0..(arg.maxNbSymbols - 1) :
                    res.count[s + 1] = Occurrences(arg.source, s)
             /\ res.count[res.ret] # 0
             /\ \A s \in (res.ret + 1)..arg.maxNbSymbols : res.count[s] = 0
             /\ SumSeq(res.count) = Len(arg.source)

\* the least k with 2^k >= x
CeilLog2(x) == CHOOSE k \in 0..31 : Pow2(k) >= x /\ (k = 0 \/ Pow2(k - 1) < x)

\* the hint (FSE_MAX_TABLELOG for 0), lowered to ceil(log2(total)), raised to
\* ceil(log2(nbSymbols)) and to FSE_MIN_TABLELOG
WantedTableLog ==
    LET t0 == IF arg.tableLog = 0 THEN FSE_MAX_TABLELOG ELSE arg.tableLog
    IN  Max(Max(Min(t0, CeilLog2(arg.total)), CeilLog2(arg.nbSymbols)), FSE_MIN_TABLELOG)

C12_TableLogRange ==
    pc = "returned" =>
        /\ (arg.op = "write" /\ arg.tableLog \notin FSE_MIN_TABLELOG..FSE_MAX_TABLELOG)
               => res.ret = ERROR
        /\ (arg.op = "read" /\ res.tableLog \notin FSE_MIN_TABLELOG..FSE_MAX_TABLELOG)
               => res.ret = ERROR

\* C13: when the counts given to FSE_writeHeader sum to more than 2^tableLog
\* (remaining becomes negative), the call ends and returns the error.
C13_OverspendIsError ==
    (/\ pc = "returned" /\ arg.op = "write"
     /\ arg.tableLog \in FSE_MIN_TABLELOG..FSE_MAX_TABLELOG
     /\ SumSeq(arg.N) > Pow2(arg.tableLog))
        => res.ret = ERROR

\* C14: FSE_buildCTable and FSE_buildDTable return the error for every count
\* vector that does not sum to exactly 2^tableLog, and 0 for those that do.
C14_BuildChecksSum ==
    pc = "built" =>
        IF SumSeq(arg.N) = Pow2(arg.tableLog)
        THEN res.ct.ret = 0 /\ res.dt.ret = 0
        ELSE res.ct.ret = ERROR /\ res.dt.ret = ERROR

\* C15: FSE_decompress_safe reads no byte of the frame at an offset of
\* maxCompressedSize or more, whatever the frame's mode.
C15_ReadsBelowBound ==
    pc = "guarded" => guarded.top < guarded.k

\* C16: no call of FSE_compress2, FSE_decompress or FSE_decompress_safe changes
\* a global variable of the program.
C16_GlobalsUntouched == [][stats' = stats]_vars

\* the counts sum to the table size and every symbol of the source has a weight
WellFormed(N, tableLog, source) ==
    /\ SumSeq(N) = Pow2(tableLog)
    /\ \A i \in 1..Len(source) : N[source[i] + 1] > 0

C20_StepInverse ==
    pc = "stepped" =>
        LET T == Pow2(arg.tableLog)
            nb == EncodeNbBits(CT_SymbolTT(res.ct.CTable, back.symbol), back.state)
        IN  /\ back.e.bitC.bitPos = nb
            /\ back.e.bitC.bitContainer = back.state % Pow2(nb)
            /\ back.e.state \in T..(2 * T - 1)
            /\ back.y.symbol = back.symbol
            /\ back.y.d.bitsConsumed = nb
            /\ back.y.state = back.state - T

\* a symbol of weight 3 in a table of 32 cells was encoded from a state that
\* costs 4 bits, with bits set in what was written, and decoded back
C20_StepTaken ==
    /\ pc = "stepped"
    /\ arg.N = <<3, 0, 6, 23>> /\ arg.tableLog = 5
    /\ back.symbol = 0
    /\ back.e.bitC.bitPos = 4 /\ back.e.bitC.bitContainer > 0
    /\ back.y.symbol = 0 /\ back.y.state = back.state - 32

\* the result of the normal decoding mode on mem: header, table, streams
NormalMode(originalSize, mem) ==
    LET Streams(h, z) == IF z.ret = ERROR THEN ERROR ELSE h.ret + z.ret
        Table(h, t) ==
            IF t.ret = ERROR THEN ERROR
            ELSE Streams(h, FSE_decompress_usingDTable(originalSize, mem, h.ret, t.DTable,
                                                       h.tableLog))
        Header(h) ==
            IF h.ret < 0 THEN h.ret
            ELSE Table(h, FSE_buildDTable(h.normalizedCounter, h.nbSymbols, h.tableLog))
    IN  Header(FSE_readHeader(mem))

\* the frame in res was written in normal mode
NormalFrame ==
    res.ret > 0 /\ res.stats = 2 /\ ~NotCompressible(res.normalSize, Len(arg.source))

\* C18: the first byte of every normal-mode frame of FSE_compress2 has its
\* two low bits equal to 2 and bits 2..5 equal to tableLog - 5, so it is
\* neither 0 nor 1; FSE_decompress copies the bytes after a first byte 0,
\* repeats the second byte after a first byte 1, runs the normal decoding
\* after a first byte whose two low bits are 10, and returns the error for
\* every other first byte.
C18_ModesUnambiguous ==
    /\ (pc \in {"framed", "decoded"} /\ NormalFrame) =>
            /\ res.out[1] % 4 = 2
            /\ (res.out[1] \div 4) % 16 = res.tableLog - FSE_MIN_TABLELOG
            /\ res.out[1] \notin {0, 1}
    /\ pc = "decoded" =>
            LET n == Len(arg.source) IN
            /\ back.byte0 = 0 =>
                    /\ back.y.ret = n + 1
                    /\ back.y.dst = Array([i \in 1..n |-> ByteAt(back.mem, i)])
            /\ back.byte0 = 1 =>
                    /\ back.y.ret = 2
                    /\ back.y.dst = Array([i \in 1..n |-> ByteAt(back.mem, 1)])
            /\ back.byte0 % 4 = 2 => back.y.ret = NormalMode(n, back.mem)
            /\ (back.byte0 > 1 /\ back.byte0 % 4 # 2) => back.y.ret = ERROR
            /\ (NormalFrame /\ back.byte0 = res.out[1]) =>
                    back.y.ret = res.ret /\ back.y.dst = arg.source

\* a frame coded with tableLog 6, so with the first byte 6 + 64 * k, was
\* decoded back to its source
C18_NormalFrameDecoded ==
    /\ pc = "decoded"
    /\ NormalFrame /\ res.tableLog = 6
    /\ back.byte0 = res.out[1] /\ back.byte0 % 64 = 6
    /\ back.y.ret = res.ret /\ back.y.dst = arg.source

\* C19: for every frame F that FSE_compress2 wrote for a buffer B,
\* FSE_decompress asked for |B| bytes returns the number of bytes of F, the
\* value the compressor returned: |B| + 1 for a raw frame, 2 for a single
\* symbol, the header plus the streams for a normal frame.
C19_ConsumedIsFrameSize ==
    pc = "decoded" =>
        /\ plain.ret = frame.ret
        /\ frame.out[1] = 0 => plain.ret = Len(buffer) + 1
        /\ frame.out[1] = 1 => plain.ret = 2
        /\ frame.out[1] > 1 => plain.ret = frame.overhead + frame.data

\* a normal frame of more than one header byte was decoded
C19_NormalFrameConsumed ==
    /\ pc = "decoded"
    /\ frame.out[1] % 4 = 2 /\ frame.overhead > 1
    /\ plain.ret = frame.overhead + frame.data /\ plain.ret = frame.ret

\* cumul[s]: the weights of the symbols below s
RangeStart(N, s) == SumRange(N, 1, s + 1)

\* the encoder is in its loops, or past them, on a source whose symbols all
\* have a weight, with tables of weights that sum to the table size
EncodingWellFormed ==
    /\ pc \in {"encoding", "closed"}
    /\ WellFormed(arg.N, arg.tableLog, back.source)

\* what C21 says of the states and of the last step
EncoderStatesInRange ==
    LET T == Pow2(arg.tableLog)
        StepRight(l, tt) ==
            /\ l.nbBits = (IF l.from > tt.maxState THEN tt.minBitsOut + 1 ELSE tt.minBitsOut)
            /\ l.index >= RangeStart(arg.N, l.symbol)
            /\ l.index < RangeStart(arg.N, l.symbol) + arg.N[l.symbol + 1]
            /\ l.to = res.ct.CTable.stateTable[l.index + 1]
    IN  /\ back.e.state1 \in T..(2 * T - 1)
        /\ back.e.state2 \in T..(2 * T - 1)
        /\ (pc = "encoding" /\ back.steps = 0) =>
                /\ back.e.state1 = T + back.source[Len(back.source)]
                /\ back.e.state2 = T + back.source[Len(back.source) - 1]
        /\ (pc = "encoding" /\ back.steps > 0) =>
                StepRight(back.last, CT_SymbolTT(res.ct.CTable, back.last.symbol))

\* C21: while FSE_compress_usingCTable encodes a source whose symbols all
\* have a weight of 1 or more, with a table of no more symbols than cells
\* (nbSymbols <= 2^tableLog), every encoder state is in [T, 2T), at the start
\* (T + the stored symbol) and after every FSE_encodeByte; a step emits
\* minBitsOut + 1 bits exactly when the state is above maxState and minBitsOut
\* bits otherwise, and (state >> nbBits) + deltaFindState lies in the
\* symbol's own range [cumul, cumul + N) of the state table.
C21_EncoderStatesInRange ==
    (EncodingWellFormed /\ arg.nbSymbols <= Pow2(arg.tableLog)) => EncoderStatesInRange

\* C21 as stated, for every table whose weights sum to the table size
C21_AnyTable == EncodingWellFormed => EncoderStatesInRange

\* a step from state 49 on a symbol of weight 3 (maxState 47) took the extra
\* bit: 4 bits out, cell 0 of the symbol's range, next state 32
C21_ExtraBitTaken ==
    /\ pc = "encoding" /\ EncodingWellFormed
    /\ arg.N = <<3, 0, 6, 23>>
    /\ back.steps = 2
    /\ back.last.symbol = 0 /\ back.last.from = 49
    /\ back.last.from > CT_SymbolTT(res.ct.CTable, 0).maxState
    /\ back.last.nbBits = 4 /\ back.last.index = 0 /\ back.last.to = 32

\* the cells of the spread table that hold symbol s, as positions 0..T-1
SpreadPositions(spread, s) == {i \in 0..(Len(spread) - 1) : spread[i + 1] = s}

\* C22: after FSE_buildCTable on weights that sum to T = 2^tableLog, the
\* state table is a bijection from 0..T-1 onto [T, 2T): symbol s owns the
\* cells [cumul[s], cumul[s] + N[s]), which hold in increasing order T + i
\* for exactly the positions i the spread gave to s; the lengths of the
\* slices sum to T; the transform of a symbol of weight 0 is as it was.
C22_StateTableBijection ==
    (pc = "built" /\ SumSeq(arg.N) = Pow2(arg.tableLog)) =>
        LET T == Pow2(arg.tableLog)
            ct == res.ct.CTable
            spread == FSE_spreadSymbols8(arg.N, arg.nbSymbols, arg.tableLog).tableSymbolByte
            Slice(s) == RangeStart(arg.N, s)..(RangeStart(arg.N, s) + arg.N[s + 1] - 1)
        IN  /\ res.ct.ret = 0
            /\ Len(ct.stateTable) = T
            /\ {ct.stateTable[k + 1] : k \in 0..(T - 1)} = T..(2 * T - 1)
            /\ \A s \in 0..(arg.nbSymbols - 1) :
                   /\ {ct.stateTable[k + 1] : k \in Slice(s)}
                        = {T + i : i \in SpreadPositions(spread, s)}
                   /\ \A k \in Slice(s), l \in Slice(s) :
                          k < l => ct.stateTable[k + 1] < ct.stateTable[l + 1]
                   /\ arg.N[s + 1] = 0 =>
                          /\ ct.symbolTT[s + 1].minBitsOut = ct.garbage.minBitsOut
                          /\ ct.symbolTT[s + 1].deltaFindState = ct.garbage.deltaFindState
                          /\ ct.symbolTT[s + 1].maxState = ct.garbage.maxState
            /\ UNION {Slice(s) : s \in 0..(arg.nbSymbols - 1)} = 0..(T - 1)
            /\ RangeStart(arg.N, arg.nbSymbols) = T

\* a table of three symbols with weights 3, 6, 23, a symbol of weight 0
\* between them and what the stack held before in that symbol's transform
C22_TableBuilt ==
    /\ pc = "built"
    /\ arg.N = <<3, 0, 6, 23>>
    /\ res.ct.ret = 0
    /\ res.ct.CTable.garbage.maxState = 65535
    /\ res.ct.CTable.symbolTT[2].maxState = 65535
    /\ res.ct.CTable.stateTable[1] = 32

\* the states [newState, newState + 2^nbBits) that cell i of a DTable leads to
NextStates(DTable, i) ==
    DTable[i + 1].newState..(DTable[i + 1].newState + Pow2(DTable[i + 1].nbBits) - 1)

\* C23: after FSE_buildDTable on weights that sum to T = 2^tableLog, the
\* counter of every symbol ends at 2 * N[s]; for every symbol of weight > 0
\* the intervals [newState[i], newState[i] + 2^nbBits[i]) of the cells i that
\* hold it are pairwise disjoint and their union is [0, T); so newState +
\* rest < T for every cell and every rest < 2^nbBits.
C23_DecodeIntervalsPartition ==
    (pc = "built" /\ SumSeq(arg.N) = Pow2(arg.tableLog)) =>
        LET T == Pow2(arg.tableLog)
            dt == res.dt.DTable
            Cells(s) == {i \in 0..(T - 1) : dt[i + 1].symbol = s}
        IN  /\ res.dt.ret = 0
            /\ Len(dt) = T
            /\ \A s \in 0..(arg.nbSymbols - 1) :
                   /\ res.dt.symbolNext[s + 1] = 2 * arg.N[s + 1]
                   /\ Cardinality(Cells(s)) = arg.N[s + 1]
                   /\ arg.N[s + 1] > 0 =>
                          /\ UNION {NextStates(dt, i) : i \in Cells(s)} = 0..(T - 1)
                          /\ \A i \in Cells(s), j \in Cells(s) :
                                 i # j => NextStates(dt, i) \cap NextStates(dt, j) = {}
            /\ \A i \in 0..(T - 1) :
                   /\ dt[i + 1].nbBits <= arg.tableLog
                   /\ \A rest \in 0..(Pow2(dt[i + 1].nbBits) - 1) :
                          dt[i + 1].newState + rest < T

\* a table where a symbol of weight 3 has cells of 3 and 4 bits
C23_TableBuilt ==
    /\ pc = "built"
    /\ arg.N = <<3, 0, 6, 23>>
    /\ res.dt.ret = 0
    /\ res.dt.symbolNext = <<6, 0, 12, 46>>
    /\ {res.dt.DTable[i].nbBits : i \in {k \in 1..32 : res.dt.DTable[k].symbol = 0}} = {3, 4}

\* C24: FSE_writeHeader on N and FSE_readHeader on the header written walk
\* the same state machine: after the same number of counts both hold the same
\* remaining, threshold, nbBits and charnum; after every count that leaves
\* remaining > 0, threshold <= remaining < 2 * threshold with threshold a
\* power of two and nbBits = log2(threshold) + 1; every count read is at most
\* what remained before it.
C24_SameStateMachine ==
    pc = "walking" =>
        /\ back.w.remaining = back.r.remaining
        /\ back.w.threshold = back.r.threshold
        /\ back.w.nbBits = back.r.nbBits
        /\ back.w.charnum = back.r.charnum
        /\ ~back.w.hang /\ ~back.r.hang /\ ~back.r.crash
        /\ back.passes = 0 =>
               /\ back.r.remaining = Pow2(arg.tableLog)
               /\ back.r.threshold = Pow2(arg.tableLog)
               /\ back.r.nbBits = arg.tableLog + 1
        /\ back.r.remaining > 0 =>
               /\ back.r.threshold <= back.r.remaining
               /\ back.r.remaining < 2 * back.r.threshold
               /\ back.r.nbBits >= 1
               /\ back.r.threshold = Pow2(back.r.nbBits - 1)
        /\ back.passes > 0 =>
               /\ back.r.counts[Len(back.r.counts)] <= back.before
               /\ back.r.counts[Len(back.r.counts)] = back.before - back.r.remaining
               /\ back.r.counts = SubSeq(arg.N, 1, back.r.charnum)

\* three counts in, after a zero run, with the threshold halved at least twice
C24_WalkedPastZeroRun ==
    /\ pc = "walking"
    /\ back.passes = 3
    /\ back.r.charnum > 3
    /\ back.r.remaining > 0
    /\ back.r.threshold * 4 <= Pow2(arg.tableLog)
    /\ back.w.threshold = back.r.threshold

\* the number of symbols with a raw count above 0
NbPresent == NC_NbNonZero(arg.count, arg.nbSymbols)

C26_NormalizeTerminates ==
    (pc = "normalized" /\ arg.total >= 2) => res.ret # HANG

\* C27: for every sequence of input bytes FSE_readHeader terminates and
\* stores no count at an index of 256 or more, the size of the array that
\* FSE_decompress gives it: charnum stays <= FSE_MAX_NB_SYMBOLS_CHAR through
\* every count and every zero run.
C27_ReaderStaysInArray ==
    (pc = "returned" /\ arg.op = "read") =>
        /\ res.ret # HANG /\ res.ret # CRASH
        /\ res.nbSymbols <= FSE_MAX_NB_SYMBOLS_CHAR
        /\ Len(res.normalizedCounter) <= FSE_MAX_NB_SYMBOLS_CHAR

\* the decoder is in its loops, or past them
Decoding == pc \in {"decoding", "finished"}

Reversed(q) == [k \in 1..Len(q) |-> q[Len(q) + 1 - k]]

Closed == pc \in {"closed", "opened"}

\* the bits of the payload of a closed stream
PayloadBits ==
    8 * Len(arg.bitC.out) + arg.bitC.bitPos + arg.nbStates * arg.tableLog

\* the length the descriptor should hold: its 4 bytes and the payload bytes
ExpectedByteLen ==
    IF arg.op = "close" THEN 4 + (PayloadBits + 7) \div 8 ELSE arg.byteLen

\* the unused bits of the last payload byte
ExpectedFinalBitPos ==
    IF arg.op = "close" THEN (8 - (PayloadBits % 8)) % 8 ELSE arg.bitPos

\* (byteLen << 3) | finalBitPos | ((nbStates - 1) << 30) as a 32-bit word
ExpectedDescriptor ==
    <<(ExpectedByteLen * 8 + ExpectedFinalBitPos) % 65536,
      (ExpectedByteLen * 8 + ExpectedFinalBitPos) \div 65536 + (arg.nbStates - 1) * 16384>>

\* C30: FSE_closeCompressionStream writes descriptor = (byteLen << 3) |
\* finalBitPos | ((nbStates - 1) << 30), where byteLen counts the 4 descriptor
\* bytes plus all payload bytes and finalBitPos = (8 - bitPos) mod 8 is the
\* number of unused bits of the last payload byte; for byteLen < 2^27 and
\* nbStates in 1..4 FSE_initDecompressionStream recovers (byteLen,
\* finalBitPos, nbStates) from it, and close returns an error for any other
\* nbStates.
C30_DescriptorRoundTrip ==
    (Closed /\ arg.op \in {"close", "describe"}) =>
        /\ res.ret = ERROR <=> arg.nbStates \notin 1..4
        /\ (res.ret # ERROR /\ ExpectedByteLen < Pow2(DescriptorLenBits)) =>
               /\ res.ret = ExpectedByteLen
               /\ arg.op = "close" => Len(res.out) = ExpectedByteLen
               /\ ReadU32(res.out, 0) = ExpectedDescriptor
               /\ pc = "opened" =>
                      /\ back.iend = ExpectedByteLen
                      /\ back.nbStates = arg.nbStates
                      /\ back.null => back.d.bitsConsumed = ExpectedFinalBitPos
                      /\ (~back.null /\ arg.op = "close") =>
                             \A k \in 1..arg.nbStates :
                                 <<back.state1, back.state2, back.state3, back.state4>>[k]
                                     = arg.states[k] % Pow2(arg.tableLog)

\* the descriptor of the longest stream with 4 states and 7 unused bits was
\* taken apart again
C30_LongestStreamOpened ==
    /\ pc = "opened" /\ arg.op = "describe"
    /\ arg.byteLen = Pow2(DescriptorLenBits) - 1 /\ arg.nbStates = 4 /\ arg.bitPos = 7
    /\ res.out = <<255, 255, 255, 255>>
    /\ back.null /\ back.iend = arg.byteLen /\ back.nbStates = 4 /\ back.d.bitsConsumed = 7

====
